---- MODULE Spec2Model ----
(***************************************************************************)
(* Credit-metered job execution pipeline.                                  *)
(*                                                                         *)
(* The database is modelled at READ COMMITTED: every session (one per      *)
(* request or background task) has a transaction whose inserts and updates *)
(* stay private until commit; an insert that collides with an uncommitted  *)
(* insert of the same unique key, and an update of a row another           *)
(* transaction has updated, wait for that transaction to end.              *)
(***************************************************************************)
EXTENDS Integers, Sequences, FiniteSets, Bags, TLC

\* ---------------------------------------------------------------- bounds
MaxLedger == 3
MaxInitBalance == 3
MaxDispatch == 3
MaxGrants == 3
MaxRpm == 2
MaxConcurrency == 2
MaxClock == 90
MaxRows == 2

\* ------------------------------------------------------ program constants
TrialGrant == 30
TemplateGenCost == 1
GeminiRequestsPerMinute == 4000
GeminiMaxConcurrency == 8
Window == 60
MaxErrorMessage == 2000

\* ---------------------------------------------------------- finite sets
Procs == {"p1", "p2"}
Orgs == {"o1", "o2"}
JobIds == {1, 2}
Amounts == {1, 2}
Pages == {0, 1, 2}
OcrJobIds == {1}
NoKey == "none"
\* An idempotency key names one logical operation (one debit or one refund of
\* one amount), as the callers of the repository derive it.
ClientDebitKeys == {"debit:A"}
ClientRefundKeys == {"refund:A"}
KeyAmount(k) == 1

VARIABLES
    organizations,   \* organizations table: the ids that exist
    org_credits,     \* org_credits table: org_id -> committed balance
    credits_ledger,  \* credits_ledger table: a bag of rows
    pc,              \* position of every thread
    call,            \* arguments of the ledger call a thread is in
    tx,              \* the uncommitted transaction of a thread's session
    res,             \* result of the thread's last ledger call
    pre,             \* history: what the thread's call found when it began
    eff,             \* history: what the thread's call committed
    prev,            \* history: the previous call of a sequential client
    applied,         \* history: balance change committed under (org, key)
    jobs,            \* template_gen_jobs table
    tasks,           \* background tasks scheduled and not yet started
    dispatched,      \* number of background tasks ever scheduled
    run,             \* locals of a thread running process_template_gen_job
    limiter,         \* the RateLimiter object
    now,             \* time.monotonic()
    grants,          \* history: the times at which acquire() admitted a caller
    lret,            \* the value acquire() returned to a thread
    ocr_jobs,        \* ocr_jobs table
    ocr_tasks,       \* background tasks _start_ocr_job scheduled, not started
    extracted_fields,\* extracted_fields table: a bag of rows
    credit_usage,    \* credit_usage table: a bag of rows
    callbacks,       \* history: callback POSTs attempted, per job
    orun,            \* locals of a thread inside process_ocr_job or an endpoint
    _limiter,        \* the module global of rate_limit: 0 is None, else an object
    limiters,        \* number of RateLimiter objects constructed so far
    got,             \* the object get_limiter() returned to a thread, 0 before
    norm             \* one pass of the field loop of process_ocr_job

ledgerVars == <<organizations, org_credits, credits_ledger>>
callVars == <<call, tx, res, pre, eff, prev, applied>>
jobVars == <<jobs, tasks, dispatched, run>>
limVars == <<limiter, now, grants, lret>>
ocrVars == <<ocr_jobs, ocr_tasks, extracted_fields, credit_usage, callbacks, orun, norm>>
glVars == <<_limiter, limiters, got>>
extVars == <<limVars, ocrVars, glVars>>
vars == <<organizations, org_credits, credits_ledger, pc, call, tx, res, pre,
          eff, prev, applied, jobs, tasks, dispatched, run, limVars, ocrVars, glVars>>

\* ---------------------------------------------------------------- helpers
RECURSIVE SumRows(_, _, _)
SumRows(led, rows, o) ==
    IF rows = {} THEN 0
    ELSE LET e == CHOOSE x \in rows : TRUE
         IN  (IF e.org = o THEN e.delta * led[e] ELSE 0) + SumRows(led, rows \ {e}, o)

\* sum(delta) over the ledger rows of an organization
SumDelta(led, o) == SumRows(led, DOMAIN led, o)

\* number of ledger rows carrying (org, key)
Entries(led, o, k) ==
    BagCardinality([e \in {x \in DOMAIN led : x.org = o /\ x.key = k} |-> led[e]])

RECURSIVE RowsOf(_)
RowsOf(entries) ==
    IF entries = <<>> THEN EmptyBag
    ELSE SetToBag({Head(entries)}) (+) RowsOf(Tail(entries))

NoCall == [op |-> "none", org |-> "o1", amount |-> 0, reason |-> "", key |-> NoKey]
NoTx == [row |-> FALSE, led |-> <<>>, upd |-> FALSE, bal |-> 0]
NoRes == [raised |-> "", balance |-> 0, already_processed |-> FALSE]
NoPre == [bal |-> 0, row |-> FALSE, led |-> 0, used |-> FALSE]
NoEff == [dbal |-> 0, nled |-> 0, seen |-> 0]
NoPrev == [call |-> NoCall, res |-> NoRes, pre |-> NoPre]
NoRun == [job |-> 0, org |-> "o1", idem |-> NoKey, stage |-> "", debited |-> FALSE,
          amount |-> 0, err |-> "", net |-> 0, start |-> 0, led |-> 0, work |-> {}]

CreditsLedger(o, d, r, k) == [org |-> o, delta |-> d, reason |-> r, key |-> k]

\* SELECT balance FROM org_credits ... ; 0 when there is no row.
get_balance(o) == IF o \in DOMAIN org_credits THEN org_credits[o] ELSE 0

\* INSERT INTO org_credits ... ON CONFLICT DO NOTHING waits while another
\* transaction holds an uncommitted insert of the same row.
EnsureBlocked(p, o) ==
    \E q \in Procs \ {p} : tx[q].row /\ call[q].org = o

\* The new row takes the server default balance 0.
ensure_org_rowMutReset(p, o) == [tx[p] EXCEPT !.row = TRUE, !.bal = 0]
ensure_org_row(p, o) ==
    IF o \in DOMAIN org_credits \/ tx[p].row THEN tx[p]
    ELSE [tx[p] EXCEPT !.row = TRUE, !.bal = 0]

\* uq_credits_ledger_idempotency: a committed row with the same (org, key).
UniqueViolationMutNever(o, k) == FALSE
UniqueViolation(o, k) ==
    k # NoKey /\ Entries(credits_ledger, o, k) > 0

\* The flush of a keyed insert waits for an uncommitted row with the same key.
InsertBlockedMutNever(p, o, k) == FALSE
InsertBlocked(p, o, k) ==
    \E q \in Procs \ {p} :
        \E i \in 1..Len(tx[q].led) : tx[q].led[i].org = o /\ tx[q].led[i].key = k

\* UPDATE org_credits waits for the row lock of another transaction.
RowLocked(p, o) ==
    \E q \in Procs \ {p} : tx[q].upd /\ call[q].org = o

\* The balance the UPDATE reads once it holds the row lock.
RowBalance(p, o) == IF tx[p].row THEN tx[p].bal ELSE org_credits[o]

\* WHERE ... AND balance >= :amount
HasFundsMutPositive(bal, amount) == bal > 0
HasFunds(bal, amount) == bal >= amount

\* The balance the refund's UPDATE writes.
RefundedMutNone(bal, amount) == bal
Refunded(bal, amount) == bal + amount

\* db.rollback(): the session's uncommitted rows are discarded.
RollbackMutKeep(p) == tx[p]
Rollback(p) == NoTx

KeyOf(p) == <<call[p].org, call[p].key>>

\* db.commit(): the transaction's rows become visible.
CommitTx(p, entries) ==
    LET o == call[p].org
        newbal == tx[p].bal
        oldbal == get_balance(o)
        touched == tx[p].row \/ tx[p].upd
    IN  /\ org_credits' =
              IF touched
              THEN [x \in DOMAIN org_credits \cup {o} |->
                        IF x = o THEN newbal ELSE org_credits[x]]
              ELSE org_credits
        /\ credits_ledger' = credits_ledger (+) RowsOf(entries)
        /\ eff' = [eff EXCEPT ![p].dbal = IF tx[p].upd THEN newbal - oldbal ELSE 0,
                              ![p].nled = Len(entries)]
        /\ applied' =
              IF call[p].key # NoKey /\ tx[p].upd
              THEN [applied EXCEPT ![KeyOf(p)] = @ + (newbal - oldbal)]
              ELSE applied
        /\ tx' = [tx EXCEPT ![p] = NoTx]

\* ------------------------------------------------------ debit_if_possible
\* amount <= 0 raises ValueError; otherwise ensure_org_row.
DebitEnsure(p) ==
    /\ pc[p] = "d_ensure"
    /\ IF call[p].amount <= 0
       THEN /\ res' = [res EXCEPT ![p] = [NoRes EXCEPT !.raised = "ValueError"]]
            /\ pc' = [pc EXCEPT ![p] = "ret"]
            /\ UNCHANGED tx
       ELSE /\ ~EnsureBlocked(p, call[p].org)
            /\ tx' = [tx EXCEPT ![p] = ensure_org_row(p, call[p].org)]
            /\ pc' = [pc EXCEPT ![p] =
                        IF call[p].key # NoKey THEN "d_insert" ELSE "d_update"]
            /\ UNCHANGED res
    /\ UNCHANGED <<ledgerVars, call, pre, eff, prev, applied, jobVars, extVars>>

\* db.add(CreditsLedger(delta=-amount, ...)); db.flush(); on IntegrityError:
\* db.rollback(); return DebitResult(get_balance(db, org_id), already_processed=True)
DebitInsert(p) ==
    /\ pc[p] = "d_insert"
    /\ ~InsertBlocked(p, call[p].org, call[p].key)
    /\ IF UniqueViolation(call[p].org, call[p].key)
       THEN /\ tx' = [tx EXCEPT ![p] = Rollback(p)]
            /\ res' = [res EXCEPT ![p] = [raised |-> "",
                                          balance |-> get_balance(call[p].org),
                                          already_processed |-> TRUE]]
            /\ pc' = [pc EXCEPT ![p] = "ret"]
       ELSE /\ tx' = [tx EXCEPT ![p].led = Append(@,
                        CreditsLedger(call[p].org, -call[p].amount, call[p].reason, call[p].key))]
            /\ pc' = [pc EXCEPT ![p] = "d_update"]
            /\ UNCHANGED res
    /\ UNCHANGED <<ledgerVars, call, pre, eff, prev, applied, jobVars, extVars>>

\* UPDATE org_credits SET balance = balance - :amount WHERE ... balance >= :amount
\* RETURNING balance; no row returned: db.rollback(), raise InsufficientCreditsError.
DebitUpdate(p) ==
    /\ pc[p] = "d_update"
    /\ ~RowLocked(p, call[p].org)
    /\ LET bal == RowBalance(p, call[p].org) IN
       IF HasFunds(bal, call[p].amount)
       THEN /\ tx' = [tx EXCEPT ![p].upd = TRUE, ![p].bal = bal - call[p].amount]
            /\ res' = [res EXCEPT ![p] = [raised |-> "", balance |-> bal - call[p].amount,
                                          already_processed |-> FALSE]]
            /\ eff' = [eff EXCEPT ![p].seen = bal]
            /\ pc' = [pc EXCEPT ![p] = "d_commit"]
       ELSE /\ tx' = [tx EXCEPT ![p] = Rollback(p)]
            /\ res' = [res EXCEPT ![p] =
                         [NoRes EXCEPT !.raised = "InsufficientCreditsError"]]
            /\ eff' = [eff EXCEPT ![p].seen = bal]
            /\ pc' = [pc EXCEPT ![p] = "ret"]
    /\ UNCHANGED <<ledgerVars, call, pre, prev, applied, jobVars, extVars>>

\* keyed: db.commit(); unkeyed: db.add(CreditsLedger(...)); db.commit()
DebitCommit(p) ==
    /\ pc[p] = "d_commit"
    /\ CommitTx(p, IF call[p].key # NoKey THEN tx[p].led
                   ELSE <<CreditsLedger(call[p].org, -call[p].amount, call[p].reason, NoKey)>>)
    /\ pc' = [pc EXCEPT ![p] = "ret"]
    /\ UNCHANGED <<organizations, call, res, pre, prev, jobVars, extVars>>

\* ------------------------------------------------------------------ refund
RefundEnsure(p) ==
    /\ pc[p] = "r_ensure"
    /\ IF call[p].amount <= 0
       THEN /\ res' = [res EXCEPT ![p] = [NoRes EXCEPT !.raised = "ValueError"]]
            /\ pc' = [pc EXCEPT ![p] = "ret"]
            /\ UNCHANGED tx
       ELSE /\ ~EnsureBlocked(p, call[p].org)
            /\ tx' = [tx EXCEPT ![p] = ensure_org_row(p, call[p].org)]
            /\ pc' = [pc EXCEPT ![p] =
                        IF call[p].key # NoKey THEN "r_insert" ELSE "r_update"]
            /\ UNCHANGED res
    /\ UNCHANGED <<ledgerVars, call, pre, eff, prev, applied, jobVars, extVars>>

\* db.add(CreditsLedger(delta=+amount, ...)); db.flush(); on IntegrityError:
\* db.rollback(); return get_balance(db, org_id)
RefundInsert(p) ==
    /\ pc[p] = "r_insert"
    /\ ~InsertBlocked(p, call[p].org, call[p].key)
    /\ IF UniqueViolation(call[p].org, call[p].key)
       THEN /\ tx' = [tx EXCEPT ![p] = Rollback(p)]
            /\ res' = [res EXCEPT ![p] = [raised |-> "",
                                          balance |-> get_balance(call[p].org),
                                          already_processed |-> TRUE]]
            /\ pc' = [pc EXCEPT ![p] = "ret"]
       ELSE /\ tx' = [tx EXCEPT ![p].led = Append(@,
                        CreditsLedger(call[p].org, call[p].amount, call[p].reason, call[p].key))]
            /\ pc' = [pc EXCEPT ![p] = "r_update"]
            /\ UNCHANGED res
    /\ UNCHANGED <<ledgerVars, call, pre, eff, prev, applied, jobVars, extVars>>

\* UPDATE org_credits SET balance = balance + :amount WHERE org_id = :org_id
RefundUpdate(p) ==
    /\ pc[p] = "r_update"
    /\ ~RowLocked(p, call[p].org)
    /\ LET bal == RowBalance(p, call[p].org) IN
       /\ tx' = [tx EXCEPT ![p].upd = TRUE, ![p].bal = Refunded(bal, call[p].amount)]
       /\ res' = [res EXCEPT ![p] = [raised |-> "",
                                     balance |-> Refunded(bal, call[p].amount),
                                     already_processed |-> FALSE]]
       /\ eff' = [eff EXCEPT ![p].seen = bal]
    /\ pc' = [pc EXCEPT ![p] = "r_commit"]
    /\ UNCHANGED <<ledgerVars, call, pre, prev, applied, jobVars, extVars>>

RefundCommit(p) ==
    /\ pc[p] = "r_commit"
    /\ CommitTx(p, IF call[p].key # NoKey THEN tx[p].led
                   ELSE <<CreditsLedger(call[p].org, call[p].amount, call[p].reason, NoKey)>>)
    /\ pc' = [pc EXCEPT ![p] = "ret"]
    /\ UNCHANGED <<organizations, call, res, pre, prev, jobVars, extVars>>

debit_if_possible(p) ==
    DebitEnsure(p) \/ DebitInsert(p) \/ DebitUpdate(p) \/ DebitCommit(p)

refund(p) ==
    RefundEnsure(p) \/ RefundInsert(p) \/ RefundUpdate(p) \/ RefundCommit(p)

LedgerStep(p) == debit_if_possible(p) \/ refund(p)

\* ------------------------------------------------- organization endpoints
\* create_org: the first organization a user owns gets the trial grant, a
\* ledger row only.
create_org(o) ==
    /\ o \notin organizations
    /\ organizations' = organizations \cup {o}
    /\ credits_ledger' =
          IF organizations = {}
          THEN credits_ledger (+) SetToBag({CreditsLedger(o, TrialGrant, "trial_grant", NoKey)})
          ELSE credits_ledger
    /\ UNCHANGED <<org_credits, pc, callVars, jobVars, extVars>>

\* credits_topup: one ledger row, committed; the response is the ledger sum.
credits_topup(o, n) ==
    /\ o \in organizations
    /\ credits_ledger' = credits_ledger (+) SetToBag({CreditsLedger(o, n, "topup", NoKey)})
    /\ UNCHANGED <<organizations, org_credits, pc, callVars, jobVars, extVars>>

\* credits_balance: coalesce(sum(delta), 0) over the organization's ledger rows.
credits_balance(o) == SumDelta(credits_ledger, o)

\* ------------------------------------------------------------ the callers
InFlight == {q \in Procs : pc[q] # "idle"}
Room == BagCardinality(credits_ledger) + Cardinality(InFlight) < MaxLedger

Snapshot(o, k) == [bal |-> get_balance(o), row |-> o \in DOMAIN org_credits,
                   led |-> BagCardinality(credits_ledger),
                   used |-> Entries(credits_ledger, o, k) > 0]

\* A thread calls debit_if_possible or refund.
ClientCall(p) ==
    /\ pc[p] = "idle"
    /\ Room
    /\ \E op \in {"debit", "refund"}, o \in organizations :
       \E k \in {NoKey} \cup (IF op = "debit" THEN ClientDebitKeys ELSE ClientRefundKeys) :
       \E a \in (IF k = NoKey THEN Amounts \cup {0} ELSE {KeyAmount(k)}) :
          /\ call' = [call EXCEPT ![p] = [op |-> op, org |-> o, amount |-> a,
                                           reason |-> op, key |-> k]]
          /\ pre' = [pre EXCEPT ![p] = Snapshot(o, k)]
          /\ pc' = [pc EXCEPT ![p] = IF op = "debit" THEN "d_ensure" ELSE "r_ensure"]
    /\ eff' = [eff EXCEPT ![p] = NoEff]
    /\ res' = [res EXCEPT ![p] = NoRes]
    /\ UNCHANGED <<ledgerVars, tx, prev, applied, jobVars, extVars>>

\* A sequential client: any key with any operation and amount.
ClientCallSeq(p) ==
    /\ pc[p] = "idle"
    /\ Room
    /\ \E op \in {"debit", "refund"}, o \in organizations :
       \E k \in {NoKey} \cup ClientDebitKeys \cup ClientRefundKeys :
       \E a \in Amounts \cup {0} :
          /\ call' = [call EXCEPT ![p] = [op |-> op, org |-> o, amount |-> a,
                                           reason |-> op, key |-> k]]
          /\ pre' = [pre EXCEPT ![p] = Snapshot(o, k)]
          /\ pc' = [pc EXCEPT ![p] = IF op = "debit" THEN "d_ensure" ELSE "r_ensure"]
    /\ eff' = [eff EXCEPT ![p] = NoEff]
    /\ res' = [res EXCEPT ![p] = NoRes]
    /\ UNCHANGED <<ledgerVars, tx, prev, applied, jobVars, extVars>>

\* The call has returned or raised to the thread.
ClientReturn(p) ==
    /\ pc[p] = "ret"
    /\ pc' = [pc EXCEPT ![p] = "idle"]
    /\ call' = [call EXCEPT ![p] = NoCall]
    /\ res' = [res EXCEPT ![p] = NoRes]
    /\ pre' = [pre EXCEPT ![p] = NoPre]
    /\ eff' = [eff EXCEPT ![p] = NoEff]
    /\ UNCHANGED <<ledgerVars, tx, prev, applied, jobVars, extVars>>

\* The same, for a client that issues its calls one after the other.
ClientReturnSeq(p) ==
    /\ pc[p] = "ret"
    /\ pc' = [pc EXCEPT ![p] = "idle"]
    /\ prev' = [prev EXCEPT ![p] = [call |-> call[p], res |-> res[p], pre |-> pre[p]]]
    /\ call' = [call EXCEPT ![p] = NoCall]
    /\ res' = [res EXCEPT ![p] = NoRes]
    /\ pre' = [pre EXCEPT ![p] = NoPre]
    /\ eff' = [eff EXCEPT ![p] = NoEff]
    /\ UNCHANGED <<ledgerVars, tx, applied, jobVars, extVars>>

CreateOrg == \E o \in Orgs : create_org(o)
TopUp ==
    /\ Room
    /\ \E o \in Orgs, n \in Amounts : credits_topup(o, n)

\* ============================================================ RateLimiter
Threads == Procs \cup {"p3"}
\* The amounts by which the monotonic clock is seen to advance.
Ticks == {20, 40}

\* __init__: rpm and max_concurrency are clamped to at least 1; the semaphore
\* starts with max_concurrency permits, no tokens, nobody waiting.
RateLimiter(rpm, max_concurrency) ==
    [rpm |-> IF rpm < 1 THEN 1 ELSE rpm,
     max_concurrency |-> IF max_concurrency < 1 THEN 1 ELSE max_concurrency,
     sem |-> IF max_concurrency < 1 THEN 1 ELSE max_concurrency,
     tokens |-> <<>>,
     waiting |-> 0]

\* threading.Semaphore.acquire() returns only while a permit is left.
SemAvailableMutAlways(sem) == TRUE
SemAvailable(sem) == sem > 0

\* now - self._tokens[0] >= 60.0
ExpiredMutEarly(t, token) == 2 * (t - token) >= Window
Expired(t, token) == t - token >= Window

\* while self._tokens and now - self._tokens[0] >= 60.0: popleft()
RECURSIVE DropExpired(_, _)
DropExpired(tokens, t) ==
    IF tokens # <<>> /\ Expired(t, Head(tokens))
    THEN DropExpired(Tail(tokens), t)
    ELSE tokens

\* q_size = max(self._waiting - 1, 0)
QueueSizeMutAll(waiting) == waiting
QueueSize(waiting) == IF waiting - 1 > 0 THEN waiting - 1 ELSE 0

limFrame == <<ledgerVars, callVars, jobVars, ocrVars, glVars>>

\* with self._lock: self._waiting += 1
LimEnter(t) ==
    /\ pc[t] = "l_enter"
    /\ limiter' = [limiter EXCEPT !.waiting = @ + 1]
    /\ pc' = [pc EXCEPT ![t] = "l_sem"]
    /\ UNCHANGED <<now, grants, lret, limFrame>>

\* self._concurrency.acquire()
LimSem(t) ==
    /\ pc[t] = "l_sem"
    /\ SemAvailable(limiter.sem)
    /\ limiter' = [limiter EXCEPT !.sem = @ - 1]
    /\ pc' = [pc EXCEPT ![t] = "l_rpm"]
    /\ UNCHANGED <<now, grants, lret, limFrame>>

\* One pass of the loop under the lock: drop the old tokens; with room in
\* the window take a token and return q_size, otherwise go to sleep.
LimRpm(t) ==
    /\ pc[t] = "l_rpm"
    /\ LET tokens == DropExpired(limiter.tokens, now) IN
       IF Len(tokens) < limiter.rpm
       THEN /\ limiter' = [limiter EXCEPT !.tokens = Append(tokens, now),
                                          !.waiting = @ - 1]
            /\ lret' = [lret EXCEPT ![t] = QueueSize(limiter.waiting)]
            /\ grants' = Append(grants, now)
            /\ pc' = [pc EXCEPT ![t] = "l_ret"]
       ELSE /\ limiter' = [limiter EXCEPT !.tokens = tokens]
            /\ pc' = [pc EXCEPT ![t] = "l_sleep"]
            /\ UNCHANGED <<grants, lret>>
    /\ UNCHANGED <<now, limFrame>>

\* time.sleep(min(max(wait, 0.01), 0.5)) is over.
LimSleep(t) ==
    /\ pc[t] = "l_sleep"
    /\ pc' = [pc EXCEPT ![t] = "l_rpm"]
    /\ UNCHANGED <<limVars, limFrame>>

\* self._concurrency.release()
releaseMutKeep(lim) == lim
release(lim) == [lim EXCEPT !.sem = @ + 1]

acquire(t) == LimEnter(t) \/ LimSem(t) \/ LimRpm(t) \/ LimSleep(t)

\* A caller of the limiter: acquire(), then release() once acquire returned.
LimCall(t) ==
    /\ pc[t] = "idle"
    /\ Len(grants) + Cardinality({q \in Threads : pc[q] \in {"l_enter", "l_sem", "l_rpm", "l_sleep"}})
          < MaxGrants
    /\ pc' = [pc EXCEPT ![t] = "l_enter"]
    /\ UNCHANGED <<limVars, limFrame>>

LimRelease(t) ==
    /\ pc[t] = "l_ret"
    /\ limiter' = release(limiter)
    /\ pc' = [pc EXCEPT ![t] = "idle"]
    /\ UNCHANGED <<now, grants, lret, limFrame>>

\* if _limiter is None: the test, on the value the global has now.
GlCheck(t) ==
    /\ pc[t] = "g_check"
    /\ pc' = [pc EXCEPT ![t] = IF _limiter = 0 THEN "g_new" ELSE "g_ret"]
    /\ UNCHANGED <<limVars, glVars, ledgerVars, callVars, jobVars, ocrVars>>

\* s = get_settings(); _limiter = RateLimiter(rpm=..., max_concurrency=...)
GlNew(t) ==
    /\ pc[t] = "g_new"
    /\ limiters' = limiters + 1
    /\ _limiter' = limiters + 1
    /\ pc' = [pc EXCEPT ![t] = "g_ret"]
    /\ UNCHANGED <<limVars, got, ledgerVars, callVars, jobVars, ocrVars>>

\* return _limiter
GlReturn(t) ==
    /\ pc[t] = "g_ret"
    /\ got' = [got EXCEPT ![t] = _limiter]
    /\ pc' = [pc EXCEPT ![t] = "idle"]
    /\ UNCHANGED <<limVars, _limiter, limiters, ledgerVars, callVars, jobVars, ocrVars>>

get_limiter(t) == GlCheck(t) \/ GlNew(t) \/ GlReturn(t)

\* A worker thread calls get_limiter().
GetLimiterCall(t) ==
    /\ pc[t] = "idle"
    /\ pc' = [pc EXCEPT ![t] = "g_check"]
    /\ UNCHANGED <<limVars, glVars, ledgerVars, callVars, jobVars, ocrVars>>

\* time.monotonic() advances.
Tick ==
    /\ \E d \in Ticks :
          /\ now + d <= MaxClock
          /\ now' = now + d
    /\ UNCHANGED <<limiter, grants, lret, pc, limFrame>>


\* ========================================================= extraction jobs
NoTemplate == "none"
\* document_templates: the fields of a template and its callback_url.
Templates ==
    [t \in {"tA", "tB"} |->
        [fields |-> IF t = "tA" THEN {} ELSE {"f1", "f2"}, callback_url |-> TRUE]]
AllFields == UNION {Templates[t].fields : t \in DOMAIN Templates}

\* OcrJob.Status
Status == {"queued", "running", "succeeded", "failed", "cancelled"}

\* The attributes the mapped class ExtractedField has; its constructor takes
\* keyword arguments that name one of them and raises TypeError for any other.
ExtractedFieldAttributesMutConfidence ==
    {"id", "document_id", "template_field_id", "user_id", "extracted_value",
     "value", "confidence", "created_at", "updated_at", "document", "field", "user"}
ExtractedFieldAttributes ==
    {"id", "document_id", "template_field_id", "user_id", "extracted_value",
     "value", "created_at", "updated_at", "document", "field", "user"}
Constructs(kwargs) == kwargs \subseteq ExtractedFieldAttributes

\* ExtractedField(document_id=, template_field_id=, extracted_value=, value=,
\*                confidence=) in process_ocr_job
PipelineKwargs ==
    {"document_id", "template_field_id", "extracted_value", "value", "confidence"}
\* ExtractedField(document_id=, template_field_id=, user_id=, extracted_value=,
\*                value=) in upsert_extracted_field
UpsertKwargs ==
    {"document_id", "template_field_id", "user_id", "extracted_value", "value"}

ExtractedField(d, f) == [document_id |-> d, template_field_id |-> f]
CreditUsage(j, st, credits, q) ==
    [job_id |-> j, status |-> st, credits_used |-> credits, queue_size |-> q]

OcrJob(d, t) ==
    [document_id |-> d, template_id |-> t, status |-> "queued", error_message |-> 0,
     started_at |-> "", completed_at |-> FALSE]

\* Locals of an invocation, and what it has done so far (history).
NoOrun == [job |-> 0, status |-> "", started_at |-> "", stage |-> "", exc |-> "", err |-> 0,
           credits_used |-> 0, doc |-> 0, field |-> "", existing |-> FALSE,
           wrote |-> FALSE, rows |-> 0, usage |-> 0, posts |-> 0, cb |-> "",
           acquired |-> 0, released |-> 0, provider |-> 0]

\* job.status in (succeeded, failed, cancelled)
IsTerminalMutNotFailed(st) == st \in {"succeeded", "cancelled"}
IsTerminal(st) == st \in {"succeeded", "failed", "cancelled"}

\* (str(e) or "error")[:2000], as the length of the stored message
ErrorMessageMutWhole(n) == n
ErrorMessage(n) ==
    IF n = 0 THEN Len("error")
    ELSE IF n > MaxErrorMessage THEN MaxErrorMessage ELSE n

\* register_document: a document and its job are committed and the job's
\* background task is scheduled.
register_document ==
    /\ dispatched < MaxDispatch
    /\ OcrJobIds \ DOMAIN ocr_jobs # {}
    /\ LET j == CHOOSE x \in OcrJobIds \ DOMAIN ocr_jobs :
                    \A y \in OcrJobIds \ DOMAIN ocr_jobs : x <= y
       IN  \E t \in {NoTemplate} \cup DOMAIN Templates :
              /\ ocr_jobs' = [x \in DOMAIN ocr_jobs \cup {j} |->
                                IF x = j THEN OcrJob(j, t) ELSE ocr_jobs[x]]
              /\ ocr_tasks' = ocr_tasks (+) SetToBag({j})
    /\ dispatched' = dispatched + 1
    /\ UNCHANGED <<ledgerVars, pc, callVars, jobs, tasks, run, limVars, glVars, norm,
                   extracted_fields, credit_usage, callbacks, orun>>

\* _start_ocr_job(job_id) is scheduled once more for a job that exists.
DuplicateDispatch ==
    /\ dispatched < MaxDispatch
    /\ \E j \in DOMAIN ocr_jobs : ocr_tasks' = ocr_tasks (+) SetToBag({j})
    /\ dispatched' = dispatched + 1
    /\ UNCHANGED <<ledgerVars, pc, callVars, jobs, tasks, run, limVars, glVars, norm,
                   ocr_jobs, extracted_fields, credit_usage, callbacks, orun>>

baseFrame == <<ledgerVars, callVars, jobVars, now, grants, lret, glVars>>
ocrFrame == <<baseFrame, norm>>

\* ------------------------------------------------- normalization of values
\* A string is a sequence of characters; a character outside ASCII is
\* written by its Unicode name.
CyrEr == "CYRILLIC CAPITAL LETTER ER"
CyrZhe == "CYRILLIC CAPITAL LETTER ZHE"
GreekRho == "GREEK CAPITAL LETTER RHO"
ArabicAlef == "ARABIC LETTER ALEF"
EAcute == "LATIN SMALL LETTER E WITH ACUTE"
Uppers == <<"A", "B", "C", "D", "E", "F", "G", "H", "I", "J", "K", "L", "M",
            "N", "O", "P", "Q", "R", "S", "T", "U", "V", "W", "X", "Y", "Z">>
Lowers == <<"a", "b", "c", "d", "e", "f", "g", "h", "i", "j", "k", "l", "m",
            "n", "o", "p", "q", "r", "s", "t", "u", "v", "w", "x", "y", "z">>
Range(f) == {f[i] : i \in DOMAIN f}
Digits == {"0", "1", "2", "3", "4", "5", "6", "7", "8", "9"}
Whitespace == {" ", "TAB"}

\* ch.isalpha()
IsAlpha(ch) ==
    ch \in Range(Uppers) \cup Range(Lowers) \cup {CyrEr, CyrZhe, GreekRho, ArabicAlef, EAcute}

\* The script word that unicodedata.name(ch, "") holds, "" when it holds
\* none of LATIN, GREEK, CYRILLIC.
ScriptOfName(ch) ==
    IF ch \in Range(Uppers) \cup Range(Lowers) \cup {EAcute} THEN "LATIN"
    ELSE IF ch \in {CyrEr, CyrZhe} THEN "CYRILLIC"
    ELSE IF ch = GreekRho THEN "GREEK"
    ELSE ""

\* ch.lower(), on the characters that the mapping of _normalize_sex can meet
Lower(ch) ==
    IF \E i \in DOMAIN Uppers : Uppers[i] = ch
    THEN Lowers[CHOOSE i \in DOMAIN Uppers : Uppers[i] = ch]
    ELSE ch
LowerStr(s) == [i \in 1..Len(s) |-> Lower(s[i])]

\* sub in s
Contains(s, sub) ==
    \E i \in 1..(Len(s) - Len(sub) + 1) : SubSeq(s, i, i + Len(sub) - 1) = sub

\* The entries of _CYR_TO_LAT for the characters of the model: the
\* Cyrillic ER looks like, and is mapped to, the Latin P.
_CYR_TO_LAT == [ch \in {CyrEr} |-> "P"]

\* "".join(_CYR_TO_LAT.get(ch, ch) for ch in s)
_to_latin_lookalike(s) ==
    [i \in 1..Len(s) |-> IF s[i] \in DOMAIN _CYR_TO_LAT THEN _CYR_TO_LAT[s[i]] ELSE s[i]]

\* some alphabetic character whose name has no LATIN and has GREEK or CYRILLIC
_contains_non_latin_alpha(s) ==
    \E i \in 1..Len(s) :
        /\ IsAlpha(s[i])
        /\ ScriptOfName(s[i]) # "LATIN"
        /\ ~(ScriptOfName(s[i]) # "GREEK" /\ ScriptOfName(s[i]) # "CYRILLIC")

\* " ".join(s.split())
RECURSIVE SplitJoin(_, _, _)
SplitJoin(s, acc, gap) ==
    IF s = <<>> THEN acc
    ELSE IF Head(s) \in Whitespace THEN SplitJoin(Tail(s), acc, acc # <<>>)
    ELSE SplitJoin(Tail(s), (IF gap THEN Append(acc, " ") ELSE acc) \o <<Head(s)>>, FALSE)

\* s.strip()
RECURSIVE Strip(_)
Strip(s) ==
    IF s # <<>> /\ Head(s) \in Whitespace THEN Strip(Tail(s))
    ELSE IF s # <<>> /\ s[Len(s)] \in Whitespace THEN Strip(SubSeq(s, 1, Len(s) - 1))
    ELSE s

Gabo == <<"G", "a", "b", "o">>
Gore == <<"G", "o", "r", "e">>
SexMapping ==
    [t \in {<<"m">>, <<"m", "a", "l", "e">>, <<"h", "o", "m", "m", "e">>,
            <<"m", "a", "s", "c", "u", "l", "i", "n">>, <<"g", "a", "b", "o">>} |-> Gabo]
    @@
    [t \in {<<"f">>, <<"f", "e", "m", "a", "l", "e">>, <<"f", "e", "m", "m", "e">>,
            <<"f", "e", "m", "i", "n", "i", "n">>, <<"f", EAcute, "m", "i", "n", "i", "n">>,
            <<"g", "o", "r", "e">>} |-> Gore]

\* mapping.get(s.strip().lower()); <<>> stands for None
_normalize_sex(s) ==
    LET t == LowerStr(Strip(s)) IN
    IF t \in DOMAIN SexMapping THEN SexMapping[t] ELSE <<>>

\* re.fullmatch(r"\d+\.0", s)
DigitsDotZero(s) ==
    /\ Len(s) >= 3
    /\ s[Len(s)] = "0" /\ s[Len(s) - 1] = "."
    /\ \A i \in 1..(Len(s) - 2) : s[i] \in Digits

\* field_type.lower() of the field types of the model
LowerType(t) == IF t = "Number" THEN "number" ELSE t

\* Penalties in thousandths: 0.6 for a look-alike conversion, 0.2 for the
\* sex mapping and for a stripped ".0".
_normalize_field_value(raw, field) ==
    LET conv == _contains_non_latin_alpha(raw)
        s1 == SplitJoin(IF conv THEN _to_latin_lookalike(raw) ELSE raw, <<>>, FALSE)
        p1 == IF conv THEN 600 ELSE 0
        fname == LowerStr(field.name)
        ftype == LowerType(field.field_type)
        sexed == /\ Contains(fname, <<"s", "e", "x">>)
                 /\ _normalize_sex(s1) # <<>>
                 /\ _normalize_sex(s1) # s1
        s2 == IF sexed THEN _normalize_sex(s1) ELSE s1
        p2 == IF sexed /\ p1 < 200 THEN 200 ELSE p1
        numbered == /\ (Contains(fname, <<"y", "e", "a", "r">>)
                          \/ ftype \in {"number", "int", "integer"})
                    /\ DigitsDotZero(s2)
        s3 == IF numbered THEN SubSeq(s2, 1, Len(s2) - 2) ELSE s2
        p3 == IF numbered /\ p2 < 200 THEN 200 ELSE p2
    IN  [value |-> s3, penalty |-> p3]

\* if conf is None: conf = 0.5
\* if penalty > 0: conf = max(0.0, min(1.0, conf * (1.0 - penalty)))
\* Confidences in thousandths; -1 stands for None.
AdjustedConfidence(conf, penalty) ==
    LET c == IF conf = -1 THEN 500 ELSE conf
        x == (c * (1000 - penalty)) \div 1000
    IN  IF penalty > 0
        THEN (IF x > 1000 THEN 1000 ELSE IF x < 0 THEN 0 ELSE x)
        ELSE c

\* The provider results, template fields and confidences of the model.
RemeraRaw == <<CyrEr, "-", "e", "m", "e", "r", "a">>
RawValues ==
    {RemeraRaw,
     <<"R", "e", "m", "e", "r", "a">>,
     <<" ", "R", "e", " ", "TAB", "m", "e", "r", "a", " ">>,
     <<CyrZhe, "a">>,
     <<GreekRho, "o">>,
     <<ArabicAlef>>,
     <<"M", "a", "l", "e">>,
     <<"G", "o", "r", "e">>,
     <<"2", "0", ".", "0">>,
     <<"2", "0">>,
     <<>>}
TemplateFields ==
    [name : {<<"n", "a", "m", "e">>, <<"S", "e", "x">>, <<"b", "i", "r", "t", "h", "_", "y", "e", "a", "r">>},
     field_type : {"string", "Number"}]
Confidences == {-1, 0, 500, 900, 1000}

NoNorm == [stage |-> "", raw |-> <<>>, field |-> [name |-> <<>>, field_type |-> ""],
           conf |-> -1, value |-> <<>>, confidence |-> -1, stored |-> FALSE, exc |-> ""]

normFrame == <<baseFrame, limiter, pc, ocr_jobs, ocr_tasks, extracted_fields,
               credit_usage, callbacks, orun>>

\* norm_val, penalty = _normalize_field_value(str(val), f); conf adjusted
NormalizeField ==
    /\ norm.stage = "result"
    /\ LET n == _normalize_field_value(norm.raw, norm.field) IN
       norm' = [norm EXCEPT !.stage = "normalized", !.value = n.value,
                            !.confidence = AdjustedConfidence(norm.conf, n.penalty)]
    /\ UNCHANGED normFrame

\* rec = ExtractedField(document_id=, template_field_id=, extracted_value=
\* norm_val, value=norm_val, confidence=conf); db.add(rec)
ConstructField ==
    /\ norm.stage = "normalized"
    /\ norm' = IF Constructs(PipelineKwargs)
               THEN [norm EXCEPT !.stage = "done", !.stored = TRUE]
               ELSE [norm EXCEPT !.stage = "done", !.exc = "TypeError"]
    /\ UNCHANGED normFrame

\* The task runner calls process_ocr_job(job_id); db = SessionLocal().
OcrStart(p) ==
    /\ pc[p] = "idle"
    /\ \E j \in DOMAIN ocr_jobs :
          /\ BagIn(j, ocr_tasks)
          /\ ocr_tasks' = ocr_tasks (-) SetToBag({j})
          /\ orun' = [orun EXCEPT ![p] = [NoOrun EXCEPT !.job = j]]
    /\ pc' = [pc EXCEPT ![p] = "o_load"]
    /\ UNCHANGED <<ocrFrame, limiter, ocr_jobs, extracted_fields, credit_usage, callbacks>>

\* job = db.query(OcrJob)...first(); a terminal status returns at once.
OcrLoad(p) ==
    /\ pc[p] = "o_load"
    /\ LET job == ocr_jobs[orun[p].job] IN
       IF IsTerminal(job.status)
       THEN /\ pc' = [pc EXCEPT ![p] = "o_done"]
            /\ orun' = [orun EXCEPT ![p].stage = "skipped", ![p].status = job.status]
       ELSE /\ pc' = [pc EXCEPT ![p] = "o_mark"]
            /\ orun' = [orun EXCEPT ![p].status = job.status,
                                    ![p].started_at = job.started_at]
    /\ UNCHANGED <<ocrFrame, limiter, ocr_jobs, ocr_tasks, extracted_fields,
                   credit_usage, callbacks>>

\* queued -> running on the loaded object, started_at if the loaded object
\* has none, provider; db.commit() writes the attributes that changed.
OcrMarkRunning(p) ==
    /\ pc[p] = "o_mark"
    /\ LET j == orun[p].job
           st == IF orun[p].status = "queued" THEN "running" ELSE ocr_jobs[j].status
           at == IF orun[p].started_at = "" THEN p ELSE ocr_jobs[j].started_at
       IN  /\ ocr_jobs' = [ocr_jobs EXCEPT ![j].status = st, ![j].started_at = at]
           /\ orun' = [orun EXCEPT ![p].status = IF orun[p].status = "queued"
                                                 THEN "running" ELSE @,
                                   ![p].started_at = IF @ = "" THEN p ELSE @,
                                   ![p].wrote = TRUE]
    /\ pc' = [pc EXCEPT ![p] = "o_fetch"]
    /\ UNCHANGED <<ocrFrame, limiter, ocr_tasks, extracted_fields, credit_usage, callbacks>>

\* except Exception as e: the handler of the outer try takes every exception
\* the steps raise.
ExceptExceptionMutNotProvider(exc) == exc # "provider"
ExceptException(exc) == TRUE

\* raise inside the outer try, with str(e) of length n: control goes to the
\* except branch, or out of the function if no handler takes the exception.
OcrRaise(p, exc, n) ==
    /\ orun' = [orun EXCEPT ![p].exc = exc, ![p].err = n]
    /\ pc' = [pc EXCEPT ![p] = IF ExceptException(exc) THEN "o_fail" ELSE "o_crash"]

\* Load the document, download its bytes, count the pages.
OcrFetch(p) ==
    /\ pc[p] = "o_fetch"
    /\ \/ \E pages \in Pages :
             /\ orun' = [orun EXCEPT ![p].credits_used = IF pages < 1 THEN 1 ELSE pages]
             /\ pc' = [pc EXCEPT ![p] = "o_acquire"]
       \/ OcrRaise(p, "document", Len("Document not found for job"))
       \/ OcrRaise(p, "download", Len("failed to download document: ") + MaxErrorMessage)
    /\ UNCHANGED <<ocrFrame, limiter, ocr_jobs, ocr_tasks, extracted_fields,
                   credit_usage, callbacks>>

\* The provider, schema and prompt are prepared; limiter.acquire() is called.
OcrAcquire(p) ==
    /\ pc[p] = "o_acquire"
    /\ pc' = [pc EXCEPT ![p] = "l_enter"]
    /\ orun' = [orun EXCEPT ![p].stage = "acquire"]
    /\ UNCHANGED <<ocrFrame, limiter, ocr_jobs, ocr_tasks, extracted_fields,
                   credit_usage, callbacks>>

\* try: provider.extract(...) finally: limiter.release()
\* The finally clause runs whether extract returned or raised.
FinallyMutOnReturn(lim, raised) == IF raised THEN lim ELSE release(lim)
Finally(lim, raised) == release(lim)

\* queue_size = limiter.acquire() has returned; provider.extract(...) returns
\* or raises; finally: limiter.release().
OcrExtract(p) ==
    /\ pc[p] = "l_ret" /\ orun[p].stage = "acquire"
    /\ \/ /\ limiter' = Finally(limiter, FALSE)
          /\ orun' = [orun EXCEPT ![p].stage = "", ![p].acquired = @ + 1,
                                  ![p].released = @ + (limiter'.sem - limiter.sem),
                                  ![p].provider = @ + 1]
          /\ pc' = [pc EXCEPT ![p] = "o_persist"]
       \/ \E n \in {0, MaxErrorMessage + 1} :
             /\ limiter' = Finally(limiter, TRUE)
             /\ orun' = [orun EXCEPT ![p].stage = "", ![p].acquired = @ + 1,
                                     ![p].released = @ + (limiter'.sem - limiter.sem),
                                     ![p].provider = @ + 1,
                                     ![p].exc = "provider", ![p].err = n]
             /\ pc' = [pc EXCEPT ![p] = IF ExceptException("provider")
                                        THEN "o_fail" ELSE "o_crash"]
    /\ UNCHANGED <<ocrFrame, ocr_jobs, ocr_tasks, extracted_fields, credit_usage, callbacks>>

\* for f in fields: rec = ExtractedField(...); db.add(rec): the fields whose
\* row is in the session when the loop ends or raises. The constructor call
\* of the first field already raises when the class rejects a keyword.
AddedMutFirst(fields) == IF fields = {} THEN {} ELSE {CHOOSE f \in fields : TRUE}
Added(fields) == IF Constructs(PipelineKwargs) THEN fields ELSE {}

\* The rows pending in the session of a run whose field loop raised.
Pending(p) ==
    LET j == orun[p].job
        t == ocr_jobs[j].template_id
        fields == IF t = NoTemplate THEN {} ELSE Templates[t].fields
    IN  IF orun[p].exc = "persist"
        THEN SetToBag({ExtractedField(ocr_jobs[j].document_id, f) : f \in Added(fields)})
        ELSE EmptyBag

\* One ExtractedField per template field is constructed and added; the job
\* is marked succeeded with completed_at; db.commit().
OcrPersist(p) ==
    /\ pc[p] = "o_persist"
    /\ LET j == orun[p].job
           t == ocr_jobs[j].template_id
           fields == IF t = NoTemplate THEN {} ELSE Templates[t].fields
       IN  IF fields # {} /\ ~Constructs(PipelineKwargs)
           THEN /\ OcrRaise(p, "persist", Len("'confidence' is an invalid keyword argument for ExtractedField"))
                /\ UNCHANGED <<ocr_jobs, extracted_fields>>
           ELSE /\ extracted_fields' = extracted_fields (+)
                       SetToBag({ExtractedField(ocr_jobs[j].document_id, f) : f \in Added(fields)})
                /\ ocr_jobs' = [ocr_jobs EXCEPT ![j].status = "succeeded",
                                                ![j].completed_at = TRUE]
                /\ orun' = [orun EXCEPT ![p].status = "succeeded",
                                        ![p].rows = Cardinality(fields)]
                /\ pc' = [pc EXCEPT ![p] = "o_usage"]
    /\ UNCHANGED <<ocrFrame, limiter, ocr_tasks, credit_usage, callbacks>>

\* CreditUsage(status="succeeded", credits_used=int(credits_used),
\*             queue_size=int(queue_size))
SuccessUsageMutNoQueue(p) ==
    CreditUsage(orun[p].job, "succeeded", orun[p].credits_used, 0)
SuccessUsage(p) ==
    CreditUsage(orun[p].job, "succeeded", orun[p].credits_used, lret[p])

\* db.add(cu); db.commit(): the session of process_ocr_job holds the usage
\* record and no CreditsLedger row ("No credits logic in trimmed OCR
\* service"); these are the ledger rows the commit makes visible.
UsageLedgerRowsMutDebit(p) ==
    SetToBag({CreditsLedger("o1", 0 - orun[p].credits_used, "ocr", NoKey)})
UsageLedgerRows(p) == EmptyBag

usageFrame == <<organizations, org_credits, callVars, jobVars, now, grants, lret,
                glVars, norm>>

\* The usage record of a successful run; db.commit()
OcrUsage(p) ==
    /\ pc[p] = "o_usage"
    /\ credit_usage' = credit_usage (+) SetToBag({SuccessUsage(p)})
    /\ credits_ledger' = credits_ledger (+) UsageLedgerRows(p)
    /\ orun' = [orun EXCEPT ![p].usage = @ + 1]
    /\ pc' = [pc EXCEPT ![p] = "o_callback"]
    /\ UNCHANGED <<usageFrame, limiter, ocr_jobs, ocr_tasks, extracted_fields, callbacks>>

\* Where the run goes after the callback block, whatever the POST did.
AfterCallbackMutRaise(outcome, next) == IF outcome = "raised" THEN "o_fail" ELSE next
AfterCallback(outcome, next) == next

\* The callback POST of a job whose template has a callback_url: it returns
\* 2xx, returns another status, or raises; all three are only logged.
Callback(p, next) ==
    LET j == orun[p].job
        t == ocr_jobs[j].template_id
    IN  IF t # NoTemplate /\ Templates[t].callback_url
        THEN \E outcome \in {"2xx", "non2xx", "raised"} :
                /\ callbacks' = [callbacks EXCEPT ![j] = @ + 1]
                /\ orun' = [orun EXCEPT ![p].posts = @ + 1, ![p].cb = outcome]
                /\ pc' = [pc EXCEPT ![p] = AfterCallback(outcome, next)]
        ELSE /\ pc' = [pc EXCEPT ![p] = next]
             /\ UNCHANGED <<callbacks, orun>>

\* Callback after success.
OcrCallback(p) ==
    /\ pc[p] = "o_callback"
    /\ Callback(p, "o_done")
    /\ UNCHANGED <<ocrFrame, limiter, ocr_jobs, ocr_tasks, extracted_fields, credit_usage>>

\* except Exception as e: the job is queried again (the session returns the
\* object it holds; autoflush is off), marked failed with the truncated
\* message and completed_at; db.commit() flushes whatever the session holds.
OcrMarkFailed(p) ==
    /\ pc[p] = "o_fail"
    /\ ocr_jobs' = [ocr_jobs EXCEPT ![orun[p].job].status = "failed",
                                    ![orun[p].job].error_message = ErrorMessage(orun[p].err),
                                    ![orun[p].job].completed_at = TRUE]
    /\ extracted_fields' = extracted_fields (+) Pending(p)
    /\ orun' = [orun EXCEPT ![p].status = "failed",
                            ![p].rows = BagCardinality(Pending(p))]
    /\ pc' = [pc EXCEPT ![p] = "o_fcallback"]
    /\ UNCHANGED <<ocrFrame, limiter, ocr_tasks, credit_usage, callbacks>>

\* Callback after failure.
OcrFailCallback(p) ==
    /\ pc[p] = "o_fcallback"
    /\ Callback(p, "o_fusage")
    /\ UNCHANGED <<ocrFrame, limiter, ocr_jobs, ocr_tasks, extracted_fields, credit_usage>>

\* CreditUsage(status="failed", credits_used=0, queue_size=0); db.commit()
OcrFailUsage(p) ==
    /\ pc[p] = "o_fusage"
    /\ credit_usage' = credit_usage (+) SetToBag({CreditUsage(orun[p].job, "failed", 0, 0)})
    /\ credits_ledger' = credits_ledger (+) UsageLedgerRows(p)
    /\ orun' = [orun EXCEPT ![p].usage = @ + 1]
    /\ pc' = [pc EXCEPT ![p] = "o_done"]
    /\ UNCHANGED <<usageFrame, limiter, ocr_jobs, ocr_tasks, extracted_fields, callbacks>>

\* finally: db.close(); process_ocr_job has returned to the task runner, or
\* an exception no handler took has reached it.
OcrReturn(p) ==
    /\ pc[p] \in {"o_done", "o_crash"}
    /\ pc' = [pc EXCEPT ![p] = "idle"]
    /\ orun' = [orun EXCEPT ![p] = NoOrun]
    /\ UNCHANGED <<ocrFrame, limiter, ocr_jobs, ocr_tasks, extracted_fields,
                   credit_usage, callbacks>>

\* ------------------------------------------------- upsert_extracted_field
\* POST .../documents/{document_id}/fields: the document and the template
\* field are found, then the row for (document, field) is looked up.
UpsertLookup(p) ==
    /\ pc[p] = "idle"
    /\ BagCardinality(extracted_fields)
          + Cardinality({q \in Procs : pc[q] = "u_write"}) < MaxRows
    /\ \E j \in DOMAIN ocr_jobs, f \in AllFields :
          LET d == ocr_jobs[j].document_id IN
          orun' = [orun EXCEPT ![p] =
                     [NoOrun EXCEPT !.doc = d, !.field = f,
                                    !.existing = BagIn(ExtractedField(d, f), extracted_fields)]]
    /\ pc' = [pc EXCEPT ![p] = "u_write"]
    /\ UNCHANGED <<ocrFrame, limiter, ocr_jobs, ocr_tasks, extracted_fields,
                   credit_usage, callbacks>>

\* if existing: its values are updated; otherwise a new ExtractedField is
\* constructed and added; db.commit().
UpsertWrite(p) ==
    /\ pc[p] = "u_write"
    /\ extracted_fields' =
          IF orun[p].existing \/ ~Constructs(UpsertKwargs) THEN extracted_fields
          ELSE extracted_fields (+) SetToBag({ExtractedField(orun[p].doc, orun[p].field)})
    /\ pc' = [pc EXCEPT ![p] = "idle"]
    /\ orun' = [orun EXCEPT ![p] = NoOrun]
    /\ UNCHANGED <<ocrFrame, limiter, ocr_jobs, ocr_tasks, credit_usage, callbacks>>

upsert_extracted_field(p) == UpsertLookup(p) \/ UpsertWrite(p)

process_ocr_job(p) ==
    \/ OcrLoad(p) \/ OcrMarkRunning(p) \/ OcrFetch(p) \/ OcrAcquire(p)
    \/ OcrExtract(p) \/ OcrPersist(p) \/ OcrUsage(p) \/ OcrCallback(p)
    \/ OcrMarkFailed(p) \/ OcrFailCallback(p) \/ OcrFailUsage(p) \/ OcrReturn(p)


\* ------------------------------------------------------------------- Init
\* idempotency_key=f"template_gen:{job.id}"
DebitKey(j) == "template_gen:" \o ToString(j)

\* idempotency_key=f"refund:template_gen:{job.id}"
RefundKeyMutSame(j) == DebitKey(j)
RefundKey(j) == "refund:" \o DebitKey(j)

AllKeys == ClientDebitKeys \cup ClientRefundKeys
           \cup {DebitKey(j) : j \in JobIds} \cup {RefundKey(j) : j \in JobIds}

\* A deployment migrated with o1 holding b credits: the migration backfills
\* org_credits from the ledger rows that exist.
Migrated(b) ==
    /\ org_credits = [o \in {"o1"} |-> b]
    /\ credits_ledger = SetToBag({CreditsLedger("o1", b, "topup", NoKey)})

Empty ==
    /\ org_credits = [o \in {} |-> 0]
    /\ credits_ledger = EmptyBag

InitDb ==
    /\ organizations = Orgs
    /\ \E b \in 0..MaxInitBalance : IF b = 0 THEN Empty ELSE Migrated(b)

InitDbOrgs ==
    \E b \in 0..MaxInitBalance :
        IF b = 0 THEN organizations = {} /\ Empty
        ELSE organizations = {"o1"} /\ Migrated(b)

InitCalls ==
    /\ call = [p \in Procs |-> NoCall]
    /\ tx = [p \in Procs |-> NoTx]
    /\ res = [p \in Procs |-> NoRes]
    /\ pre = [p \in Procs |-> NoPre]
    /\ eff = [p \in Procs |-> NoEff]
    /\ prev = [p \in Procs |-> NoPrev]
    /\ applied = [ok \in Orgs \X AllKeys |-> 0]

InitThreads ==
    /\ pc = [p \in Procs |-> "idle"]
    /\ InitCalls

InitNoJobs ==
    /\ jobs = [j \in {} |-> 0]
    /\ tasks = EmptyBag
    /\ dispatched = 0
    /\ run = [p \in Procs |-> NoRun]

\* The limiter of the process exists: get_limiter() has constructed it.
InitGot ==
    /\ _limiter = 1
    /\ limiters = 1
    /\ got = [t \in Threads |-> 0]

\* get_limiter(): RateLimiter(rpm=gemini_requests_per_minute,
\*                            max_concurrency=gemini_max_concurrency)
InitLimiterConfigured ==
    /\ limiter = RateLimiter(GeminiRequestsPerMinute, GeminiMaxConcurrency)
    /\ now = 0
    /\ grants = <<>>
    /\ lret = [p \in Threads |-> 0]
    /\ InitGot

InitNoOcr ==
    /\ ocr_jobs = [j \in {} |-> 0]
    /\ ocr_tasks = EmptyBag
    /\ extracted_fields = EmptyBag
    /\ credit_usage = EmptyBag
    /\ callbacks = [j \in JobIds |-> 0]
    /\ orun = [p \in Procs |-> NoOrun]
    /\ norm = NoNorm

InitExt == InitLimiterConfigured /\ InitNoOcr

Init == InitDb /\ InitThreads /\ InitNoJobs /\ InitExt

Next ==
    \/ \E p \in Procs : ClientCall(p)
    \/ \E p \in Procs : LedgerStep(p)
    \/ \E p \in Procs : ClientReturn(p)

Spec == Init /\ [][Next]_vars

\* The ledger with the organization endpoints, one client thread.
InitOrgs == InitDbOrgs /\ InitThreads /\ InitNoJobs /\ InitExt

NextOrgs ==
    \/ CreateOrg
    \/ TopUp
    \/ ClientCall("p1")
    \/ LedgerStep("p1")
    \/ ClientReturn("p1")

SpecOrgs == InitOrgs /\ [][NextOrgs]_vars

\* One client thread that issues its calls one after the other.
NextSeq ==
    \/ ClientCallSeq("p1")
    \/ LedgerStep("p1")
    \/ ClientReturnSeq("p1")

InitSeq ==
    /\ organizations = {"o1"}
    /\ \E b \in 0..MaxInitBalance : IF b = 0 THEN Empty ELSE Migrated(b)
    /\ InitThreads /\ InitNoJobs /\ InitExt

SpecSeq == InitSeq /\ [][NextSeq]_vars


\* ============================================ template generation jobs
TemplateGenJob(o, k) ==
    [org |-> o, idempotency_key |-> k, status |-> "queued", error_message |-> "",
     started_at |-> FALSE, completed_at |-> FALSE, template_id |-> FALSE]

Submitting == {q \in Procs : pc[q] \in {"g_lookup", "g_create"}}

\* A request POST /{org_id}/ocr/templates/generate arrives.
SubmitRequest(p) ==
    /\ pc[p] = "idle"
    /\ dispatched + Cardinality(Submitting) < MaxDispatch
    /\ Cardinality(DOMAIN jobs) + Cardinality(Submitting) < Cardinality(JobIds)
    /\ \E o \in organizations, k \in {NoKey, "ik"} :
          run' = [run EXCEPT ![p] = [NoRun EXCEPT !.org = o, !.idem = k]]
    /\ pc' = [pc EXCEPT ![p] = "g_lookup"]
    /\ UNCHANGED <<ledgerVars, callVars, jobs, tasks, dispatched, extVars>>

\* generate_template_from_pdf: with a key, return the existing job, and
\* schedule it again if it is still queued.
GenLookup(p) ==
    /\ pc[p] = "g_lookup"
    /\ LET existing == {j \in DOMAIN jobs :
                           /\ jobs[j].org = run[p].org
                           /\ jobs[j].idempotency_key = run[p].idem}
       IN  IF run[p].idem # NoKey /\ existing # {}
           THEN \E j \in existing :
                   /\ IF jobs[j].status = "queued"
                      THEN /\ tasks' = tasks (+) SetToBag({j})
                           /\ dispatched' = dispatched + 1
                      ELSE UNCHANGED <<tasks, dispatched>>
                   /\ pc' = [pc EXCEPT ![p] = "idle"]
                   /\ run' = [run EXCEPT ![p] = NoRun]
           ELSE /\ pc' = [pc EXCEPT ![p] = "g_create"]
                /\ UNCHANGED <<tasks, dispatched, run>>
    /\ UNCHANGED <<ledgerVars, callVars, jobs, extVars>>

\* generate_template_from_pdf: create the job, commit, schedule the task.
GenCreate(p) ==
    /\ pc[p] = "g_create"
    /\ LET j == CHOOSE x \in JobIds \ DOMAIN jobs :
                    \A y \in JobIds \ DOMAIN jobs : x <= y
       IN  /\ jobs' = [x \in DOMAIN jobs \cup {j} |->
                         IF x = j THEN TemplateGenJob(run[p].org, run[p].idem)
                         ELSE jobs[x]]
           /\ tasks' = tasks (+) SetToBag({j})
    /\ dispatched' = dispatched + 1
    /\ pc' = [pc EXCEPT ![p] = "idle"]
    /\ run' = [run EXCEPT ![p] = NoRun]
    /\ UNCHANGED <<ledgerVars, callVars, extVars>>

\* The background task runner starts process_template_gen_job(job_id).
StartTask(p) ==
    /\ pc[p] = "idle"
    /\ \E j \in DOMAIN jobs :
          /\ BagIn(j, tasks)
          /\ tasks' = tasks (-) SetToBag({j})
          /\ run' = [run EXCEPT ![p] =
                       [NoRun EXCEPT !.job = j, !.org = jobs[j].org,
                                     !.start = get_balance(jobs[j].org),
                                     !.led = BagCardinality(credits_ledger)]]
    /\ pc' = [pc EXCEPT ![p] = "t_load"]
    /\ UNCHANGED <<ledgerVars, callVars, jobs, dispatched, extVars>>

\* job = db.query(...).first(); return unless job.status is "queued".
TgLoad(p) ==
    /\ pc[p] = "t_load"
    /\ pc' = [pc EXCEPT ![p] =
                IF run[p].job \notin DOMAIN jobs THEN "t_done"
                ELSE IF jobs[run[p].job].status \notin {"queued"} THEN "t_done"
                ELSE "t_mark"]
    /\ run' = [run EXCEPT ![p].stage =
                 IF run[p].job \in DOMAIN jobs /\ jobs[run[p].job].status \notin {"queued"}
                 THEN "skipped" ELSE @]
    /\ UNCHANGED <<ledgerVars, callVars, jobs, tasks, dispatched, extVars>>

\* job.status = "running"; started_at = now; commit; then call
\* debit_if_possible(job.org_id, template_gen_cost, key template_gen:<id>).
TgMarkRunning(p) ==
    /\ pc[p] = "t_mark"
    /\ LET j == run[p].job IN
       /\ jobs' = [jobs EXCEPT ![j].status = "running", ![j].started_at = TRUE]
       /\ run' = [run EXCEPT ![p].stage = "debit", ![p].amount = TemplateGenCost]
       /\ call' = [call EXCEPT ![p] = [op |-> "debit", org |-> jobs[j].org,
                                       amount |-> TemplateGenCost,
                                       reason |-> "template_gen", key |-> DebitKey(j)]]
       /\ pre' = [pre EXCEPT ![p] = Snapshot(jobs[j].org, DebitKey(j))]
    /\ eff' = [eff EXCEPT ![p] = NoEff]
    /\ res' = [res EXCEPT ![p] = NoRes]
    /\ pc' = [pc EXCEPT ![p] = "d_ensure"]
    /\ UNCHANGED <<ledgerVars, tx, prev, applied, tasks, dispatched, extVars>>

\* Where the run goes after the debit: `return` in the handler of
\* InsufficientCreditsError, no handler for another exception, otherwise on
\* to the work block.
AfterDebitMutIgnore(raised) ==
    IF raised \in {"", "InsufficientCreditsError"} THEN "t_download" ELSE "t_crash"
AfterDebit(raised) ==
    IF raised = "InsufficientCreditsError" THEN "t_done"
    ELSE IF raised # "" THEN "t_crash"
    ELSE "t_download"

\* debited = not res.already_processed; on InsufficientCreditsError the job is
\* marked failed with "insufficient credits" and the run returns; any other
\* exception of the call has no handler.
TgAfterDebit(p) ==
    /\ pc[p] = "ret" /\ run[p].stage = "debit"
    /\ LET j == run[p].job IN
       IF res[p].raised = "InsufficientCreditsError"
       THEN /\ jobs' = [jobs EXCEPT ![j].status = "failed",
                                    ![j].error_message = "insufficient credits",
                                    ![j].completed_at = TRUE]
            /\ run' = [run EXCEPT ![p].stage = "", ![p].err = "insufficient credits"]
       ELSE IF res[p].raised # ""
       THEN /\ run' = [run EXCEPT ![p].stage = "", ![p].err = res[p].raised]
            /\ UNCHANGED jobs
       ELSE /\ run' = [run EXCEPT ![p].stage = "",
                                  ![p].debited = ~res[p].already_processed,
                                  ![p].net = @ + eff[p].dbal]
            /\ UNCHANGED jobs
    /\ pc' = [pc EXCEPT ![p] = AfterDebit(res[p].raised)]
    /\ UNCHANGED <<ledgerVars, callVars, tasks, dispatched, extVars>>

\* An exception in the work block: control goes to the except branch.
\* `done` is what the raising statement did before it raised.
Raise(p, done) ==
    /\ run' = [run EXCEPT ![p].err = "error", ![p].work = @ \cup done]
    /\ pc' = [pc EXCEPT ![p] = "t_fail"]
    /\ UNCHANGED jobs

\* pdf_bytes = rustfs.download_by_url_sync(job.pdf_url)
TgDownload(p) ==
    /\ pc[p] = "t_download"
    /\ \/ /\ pc' = [pc EXCEPT ![p] = "t_generate"]
          /\ run' = [run EXCEPT ![p].work = @ \cup {"download"}]
          /\ UNCHANGED jobs
       \/ Raise(p, {"download"})
    /\ UNCHANGED <<ledgerVars, callVars, tasks, dispatched, extVars>>

\* result = TemplateGenerator().generate(pdf_bytes=...)
TgGenerate(p) ==
    /\ pc[p] = "t_generate"
    /\ \/ /\ pc' = [pc EXCEPT ![p] = "t_persist"]
          /\ run' = [run EXCEPT ![p].work = @ \cup {"provider"}]
          /\ UNCHANGED jobs
       \/ Raise(p, {"provider"})
    /\ UNCHANGED <<ledgerVars, callVars, tasks, dispatched, extVars>>

\* The template and its fields are created and committed.
TgPersist(p) ==
    /\ pc[p] = "t_persist"
    /\ \/ pc' = [pc EXCEPT ![p] = "t_succeed"] /\ UNCHANGED <<jobs, run>>
       \/ Raise(p, {})
    /\ UNCHANGED <<ledgerVars, callVars, tasks, dispatched, extVars>>

\* job.template_id = t.id; job.status = "succeeded"; completed_at = now; commit
TgMarkSucceeded(p) ==
    /\ pc[p] = "t_succeed"
    /\ jobs' = [jobs EXCEPT ![run[p].job].status = "succeeded",
                            ![run[p].job].template_id = TRUE,
                            ![run[p].job].completed_at = TRUE]
    /\ pc' = [pc EXCEPT ![p] = "t_done"]
    /\ UNCHANGED <<ledgerVars, callVars, tasks, dispatched, run, extVars>>

\* except Exception: job.status = "failed"; error_message; completed_at;
\* commit; then refund under refund:template_gen:<id> if debited.
TgMarkFailed(p) ==
    /\ pc[p] = "t_fail"
    /\ LET j == run[p].job IN
       /\ jobs' = [jobs EXCEPT ![j].status = "failed",
                               ![j].error_message = run[p].err,
                               ![j].completed_at = TRUE]
       /\ IF run[p].debited
          THEN /\ call' = [call EXCEPT ![p] =
                             [op |-> "refund", org |-> jobs[j].org,
                              amount |-> run[p].amount,
                              reason |-> "refund_template_gen", key |-> RefundKey(j)]]
               /\ pre' = [pre EXCEPT ![p] = Snapshot(jobs[j].org, RefundKey(j))]
               /\ eff' = [eff EXCEPT ![p] = NoEff]
               /\ res' = [res EXCEPT ![p] = NoRes]
               /\ run' = [run EXCEPT ![p].stage = "refund"]
               /\ pc' = [pc EXCEPT ![p] = "r_ensure"]
          ELSE /\ pc' = [pc EXCEPT ![p] = "t_done"]
               /\ UNCHANGED <<call, pre, eff, res, run>>
    /\ UNCHANGED <<ledgerVars, tx, prev, applied, tasks, dispatched, extVars>>

\* refund(...) has returned; an exception of it would be swallowed.
TgAfterRefund(p) ==
    /\ pc[p] = "ret" /\ run[p].stage = "refund"
    /\ run' = [run EXCEPT ![p].stage = "", ![p].net = @ + eff[p].dbal]
    /\ pc' = [pc EXCEPT ![p] = "t_done"]
    /\ UNCHANGED <<ledgerVars, callVars, jobs, tasks, dispatched, extVars>>

\* finally: db.close(); the task has returned.
TgReturn(p) ==
    /\ pc[p] \in {"t_done", "t_crash"}
    /\ pc' = [pc EXCEPT ![p] = "idle"]
    /\ run' = [run EXCEPT ![p] = NoRun]
    /\ call' = [call EXCEPT ![p] = NoCall]
    /\ res' = [res EXCEPT ![p] = NoRes]
    /\ pre' = [pre EXCEPT ![p] = NoPre]
    /\ eff' = [eff EXCEPT ![p] = NoEff]
    /\ UNCHANGED <<ledgerVars, tx, prev, applied, jobs, tasks, dispatched, extVars>>

process_template_gen_job(p) ==
    \/ TgLoad(p) \/ TgMarkRunning(p) \/ TgAfterDebit(p)
    \/ TgDownload(p) \/ TgGenerate(p) \/ TgPersist(p)
    \/ TgMarkSucceeded(p) \/ TgMarkFailed(p) \/ TgAfterRefund(p) \/ TgReturn(p)

generate_template_from_pdf(p) == GenLookup(p) \/ GenCreate(p)

InitJobs ==
    /\ organizations = {"o1"}
    /\ \E b \in 0..MaxInitBalance : IF b = 0 THEN Empty ELSE Migrated(b)
    /\ InitThreads /\ InitNoJobs /\ InitExt

NextJobs ==
    \/ \E p \in Procs : SubmitRequest(p)
    \/ \E p \in Procs : generate_template_from_pdf(p)
    \/ \E p \in Procs : StartTask(p)
    \/ \E p \in Procs : process_template_gen_job(p)
    \/ \E p \in Procs : LedgerStep(p)

SpecJobs == InitJobs /\ [][NextJobs]_vars

\* The limiter alone: three threads call acquire() and release() while the
\* clock advances; rpm and max_concurrency are the constructor's arguments.
InitLimiter ==
    /\ organizations = {"o1"} /\ Empty
    /\ pc = [t \in Threads |-> "idle"]
    /\ InitCalls /\ InitNoJobs /\ InitNoOcr
    /\ \E rpm \in 0..MaxRpm, max_concurrency \in 0..MaxConcurrency :
          limiter = RateLimiter(rpm, max_concurrency)
    /\ now = 0
    /\ grants = <<>>
    /\ lret = [t \in Threads |-> 0]
    /\ InitGot

NextLimiter ==
    \/ \E t \in Threads : LimCall(t)
    \/ \E t \in Threads : acquire(t)
    \/ \E t \in Threads : LimRelease(t)
    \/ Tick

SpecLimiter == InitLimiter /\ [][NextLimiter]_vars

\* wait = 60.0 - (now - self._tokens[0]); time.sleep(...): the clock reaches
\* the moment at which the oldest permit still inside the window leaves it.
\* Once every token has expired a later reading changes nothing the
\* limiter decides, so the clock of this specification rests there.
Advance ==
    /\ DropExpired(limiter.tokens, now) # <<>>
    /\ now' = Head(DropExpired(limiter.tokens, now)) + Window
    /\ UNCHANGED <<limiter, grants, lret, pc, limFrame>>

NextLimiterFair ==
    \/ \E t \in Threads : LimCall(t)
    \/ \E t \in Threads : acquire(t)
    \/ \E t \in Threads : LimRelease(t)
    \/ Advance

\* The limiter under its scheduling: a thread inside acquire() that can
\* take its next step takes it (the lock is held for a few statements and
\* time.sleep returns), every admitted caller calls release(), and time
\* advances.
SpecLimiterFair ==
    /\ InitLimiter
    /\ [][NextLimiterFair]_vars
    /\ \A t \in Threads : WF_vars(acquire(t)) /\ WF_vars(LimRelease(t))
    /\ WF_vars(Advance)

\* The worker threads of a fresh process call get_limiter();
\* _limiter = None at import.
InitGetLimiter ==
    /\ organizations = {"o1"} /\ Empty
    /\ pc = [t \in Threads |-> "idle"]
    /\ InitCalls /\ InitNoJobs /\ InitNoOcr
    /\ limiter = RateLimiter(GeminiRequestsPerMinute, GeminiMaxConcurrency)
    /\ now = 0
    /\ grants = <<>>
    /\ lret = [t \in Threads |-> 0]
    /\ _limiter = 0
    /\ limiters = 0
    /\ got = [t \in Threads |-> 0]

NextGetLimiter ==
    \/ \E t \in Threads : GetLimiterCall(t)
    \/ \E t \in Threads : get_limiter(t)

SpecGetLimiter == InitGetLimiter /\ [][NextGetLimiter]_vars

\* The field loop of process_ocr_job on one provider result for one field.
InitNormalize ==
    /\ organizations = {"o1"} /\ Empty
    /\ InitThreads /\ InitNoJobs /\ InitLimiterConfigured
    /\ ocr_jobs = [j \in {} |-> 0]
    /\ ocr_tasks = EmptyBag
    /\ extracted_fields = EmptyBag
    /\ credit_usage = EmptyBag
    /\ callbacks = [j \in JobIds |-> 0]
    /\ orun = [p \in Procs |-> NoOrun]
    /\ \E raw \in RawValues, f \in TemplateFields, c \in Confidences :
          norm = [NoNorm EXCEPT !.stage = "result", !.raw = raw, !.field = f, !.conf = c]

NextNormalize == NormalizeField \/ ConstructField

SpecNormalize == InitNormalize /\ [][NextNormalize]_vars

\* Extraction jobs: documents are registered, tasks are delivered (possibly
\* more than once) and run on two worker threads.
\* No job yet, or one that an operator has cancelled (no code path of the
\* service sets that status).
InitOcrJobs ==
    /\ \/ ocr_jobs = [j \in {} |-> 0]
       \/ ocr_jobs = [j \in {1} |-> [OcrJob(1, NoTemplate) EXCEPT !.status = "cancelled"]]
    /\ ocr_tasks = EmptyBag
    /\ extracted_fields = EmptyBag
    /\ credit_usage = EmptyBag
    /\ callbacks = [j \in JobIds |-> 0]
    /\ orun = [p \in Procs |-> NoOrun]
    /\ norm = NoNorm

InitOcr ==
    /\ organizations = {"o1"} /\ Empty
    /\ InitThreads /\ InitNoJobs /\ InitLimiterConfigured /\ InitOcrJobs

NextOcr ==
    \/ register_document
    \/ DuplicateDispatch
    \/ \E p \in Procs : OcrStart(p)
    \/ \E p \in Procs : process_ocr_job(p)
    \/ \E p \in Procs : LimEnter(p) \/ LimSem(p) \/ LimRpm(p)

SpecOcr == InitOcr /\ [][NextOcr]_vars

\* Extraction jobs together with manual upserts of extracted fields.
NextFields ==
    \/ register_document
    \/ \E p \in Procs : OcrStart(p)
    \/ \E p \in Procs : process_ocr_job(p)
    \/ \E p \in Procs : LimEnter(p) \/ LimSem(p) \/ LimRpm(p)
    \/ \E p \in Procs : upsert_extracted_field(p)

SpecFields == InitOcr /\ [][NextFields]_vars

\* Extraction jobs and template generation jobs together,
\* one worker thread that runs the scheduled tasks one after the other.
NextWork ==
    \/ SubmitRequest("p1")
    \/ generate_template_from_pdf("p1")
    \/ StartTask("p1")
    \/ process_template_gen_job("p1")
    \/ LedgerStep("p1")
    \/ register_document
    \/ DuplicateDispatch
    \/ OcrStart("p1")
    \/ process_ocr_job("p1")
    \/ LimEnter("p1") \/ LimSem("p1") \/ LimRpm("p1")

InitWork ==
    /\ organizations = {"o1"}
    /\ \E b \in 0..MaxInitBalance : IF b = 0 THEN Empty ELSE Migrated(b)
    /\ InitThreads /\ InitNoJobs /\ InitLimiterConfigured /\ InitOcrJobs

SpecWork == InitWork /\ [][NextWork]_vars

\* A database call inside debit_if_possible (an execute, the flush or the
\* commit) raises a database error other than IntegrityError: the call has
\* no handler for it, nothing of the transaction is committed, and the
\* exception reaches process_template_gen_job.
TgDebitDbError(p) ==
    /\ pc[p] \in {"d_ensure", "d_insert", "d_update", "d_commit"}
    /\ run[p].stage = "debit"
    /\ tx' = [tx EXCEPT ![p] = NoTx]
    /\ res' = [res EXCEPT ![p] = [NoRes EXCEPT !.raised = "OperationalError"]]
    /\ pc' = [pc EXCEPT ![p] = "ret"]
    /\ UNCHANGED <<ledgerVars, call, pre, eff, prev, applied, jobVars, extVars>>

\* The query or the commit in the except branch of process_ocr_job raises:
\* the inner try has only `finally: pass`, so the exception leaves the
\* function and the job keeps the status it had.
OcrHandlerDbError(p) ==
    /\ pc[p] = "o_fail"
    /\ pc' = [pc EXCEPT ![p] = "o_crash"]
    /\ UNCHANGED <<ocrFrame, limiter, ocr_jobs, ocr_tasks, extracted_fields,
                   credit_usage, callbacks, orun>>

\* The single worker of SpecWork, with database calls that may raise.
NextFaults ==
    \/ NextWork
    \/ TgDebitDbError("p1")
    \/ OcrHandlerDbError("p1")

SpecFaults == InitWork /\ [][NextFaults]_vars

\* ================================================================ claims
Succeeded(p) == pc[p] = "ret" /\ res[p].raised = "" /\ ~res[p].already_processed
Insufficient(p) == pc[p] = "ret" /\ res[p].raised = "InsufficientCreditsError"

\* C1: in every interleaving of debits and refunds the committed balance of
\* every organization is at least zero, and every debit that succeeds was
\* applied to a balance that was at least its amount when its UPDATE ran.
C1_NoNegativeBalance ==
    /\ \A o \in DOMAIN org_credits : org_credits[o] >= 0
    /\ \A p \in Procs :
          (call[p].op = "debit" /\ (pc[p] = "d_commit" \/ Succeeded(p)))
              => /\ eff[p].seen >= call[p].amount
                 /\ res[p].balance = eff[p].seen - call[p].amount

\* Two debits raced for the same balance: one succeeded and drained it, the
\* other was rejected.
C1_Witness ==
    \E p \in Procs, q \in Procs :
        /\ p # q /\ call[p].op = "debit" /\ call[q].op = "debit"
        /\ call[p].org = call[q].org
        /\ Succeeded(p) /\ Insufficient(q)
        /\ org_credits[call[p].org] = 0

C2_State ==
    /\ \A o \in Orgs, k \in ClientDebitKeys :
          /\ applied[<<o, k>>] \in {0, -KeyAmount(k)}
          /\ Entries(credits_ledger, o, k) <= 1
    /\ \A p \in Procs :
          (pc[p] = "ret" /\ call[p].op = "debit" /\ call[p].key # NoKey
             /\ eff[p].dbal = 0 /\ res[p].raised # "InsufficientCreditsError")
              => res[p].raised = "" /\ res[p].already_processed

C2_Step ==
    \A p \in Procs :
        (pc[p] = "d_insert" /\ pc'[p] = "ret")
            => res'[p].balance = get_balance(call[p].org) /\ res'[p].already_processed

\* C2: debits carrying the same (org, key) decrement the balance at most once
\* and commit at most one ledger row with that key, in any interleaving; a
\* call that neither decremented nor raised InsufficientCreditsError returns
\* already_processed = true with the balance it read at that moment.
C2_KeyedDebitAtMostOnce == [](C2_State) /\ [][C2_Step]_vars

\* Two calls with the same key have returned, one charged, one replayed.
C2_Witness ==
    \E p \in Procs, q \in Procs :
        /\ p # q /\ call[p] = call[q] /\ call[p].op = "debit" /\ call[p].key # NoKey
        /\ Succeeded(p)
        /\ pc[q] = "ret" /\ res[q].already_processed
        /\ applied[KeyOf(p)] = -call[p].amount

\* C3: sequential replay of a keyed debit: on a fresh key and a balance
\* b >= a the first call returns (b - a, false); a second identical call
\* returns (b - a, true) and the balance stays b - a.
C3_SequentialReplay ==
    \A p \in Procs :
        (pc[p] = "ret" /\ call[p].op = "debit" /\ call[p].key # NoKey
            /\ call[p].amount > 0)
        => /\ (~pre[p].used /\ pre[p].bal >= call[p].amount)
                => /\ res[p] = [raised |-> "", balance |-> pre[p].bal - call[p].amount,
                                already_processed |-> FALSE]
                   /\ get_balance(call[p].org) = pre[p].bal - call[p].amount
           /\ (prev[p].call = call[p] /\ prev[p].res.raised = ""
                  /\ ~prev[p].res.already_processed)
                => /\ res[p] = [raised |-> "", balance |-> prev[p].res.balance,
                                already_processed |-> TRUE]
                   /\ prev[p].res.balance = prev[p].pre.bal - call[p].amount
                   /\ get_balance(call[p].org) = prev[p].pre.bal - call[p].amount

\* The replay of a keyed debit that had charged has returned.
C3_Witness ==
    \E p \in Procs :
        /\ pc[p] = "ret" /\ call[p].op = "debit" /\ call[p].key # NoKey
        /\ prev[p].call = call[p] /\ prev[p].res.raised = ""
        /\ ~prev[p].res.already_processed /\ ~prev[p].pre.used
        /\ res[p].already_processed

C4_State ==
    /\ \A o \in Orgs, k \in ClientRefundKeys :
          /\ applied[<<o, k>>] \in {0, KeyAmount(k)}
          /\ Entries(credits_ledger, o, k) <= 1
    /\ \A p \in Procs :
          (pc[p] = "ret" /\ call[p].op = "refund" /\ call[p].amount > 0)
              => /\ res[p].raised = ""
                 /\ call[p].key # NoKey
                      => /\ applied[KeyOf(p)] = call[p].amount
                         /\ Entries(credits_ledger, call[p].org, call[p].key) = 1
                         /\ CopiesIn(CreditsLedger(call[p].org, call[p].amount,
                                                   call[p].reason, call[p].key),
                                     credits_ledger) = 1
                         /\ res[p].already_processed
                              => eff[p].dbal = 0 /\ eff[p].nled = 0

C4_Step ==
    \A p \in Procs :
        (pc[p] = "r_insert" /\ pc'[p] = "ret")
            => /\ res'[p].balance = get_balance(call[p].org)
               /\ org_credits' = org_credits

RoundTrip(p) ==
    /\ pc[p] = "ret" /\ call[p].op = "refund" /\ call[p].key # NoKey
    /\ ~pre[p].used
    /\ prev[p].call.op = "debit" /\ prev[p].call.key # NoKey
    /\ prev[p].call.key # call[p].key
    /\ ~prev[p].pre.used
    /\ prev[p].call.org = call[p].org
    /\ prev[p].call.amount = call[p].amount /\ call[p].amount > 0
    /\ prev[p].pre.bal >= call[p].amount

\* C5: a debit of n under a fresh key K1 on a balance >= n, followed by a
\* refund of n under a fresh key K2 # K1, leaves the balance at its value
\* before the debit.
C5_RoundTrip ==
    \A p \in Procs :
        RoundTrip(p) => /\ get_balance(call[p].org) = prev[p].pre.bal
                        /\ res[p].balance = prev[p].pre.bal
                        /\ prev[p].res.balance = prev[p].pre.bal - call[p].amount

C5_Witness == \E p \in Procs : RoundTrip(p) /\ call[p].amount = 2

\* C6: a debit whose amount exceeds the balance raises
\* InsufficientCreditsError, keyed or not, and leaves the committed state as
\* it was: same balance, same account row, no ledger row, nothing pending.
C6_InsufficientRejected ==
    \A p \in Procs :
        (pc[p] = "ret" /\ call[p].op = "debit" /\ call[p].amount > 0)
        => /\ (pre[p].bal < call[p].amount /\ ~pre[p].used)
                  => res[p].raised = "InsufficientCreditsError"
           /\ res[p].raised = "InsufficientCreditsError"
                  => /\ pre[p].bal < call[p].amount
                     /\ get_balance(call[p].org) = pre[p].bal
                     /\ (call[p].org \in DOMAIN org_credits) = pre[p].row
                     /\ BagCardinality(credits_ledger) = pre[p].led
                     /\ tx[p] = NoTx

\* A keyed debit on an organization without account row was rejected.
C6_Witness ==
    \E p \in Procs :
        /\ Insufficient(p) /\ call[p].op = "debit" /\ call[p].key # NoKey
        /\ ~pre[p].row /\ call[p].org \notin DOMAIN org_credits

JobNet(j) == applied[<<jobs[j].org, DebitKey(j)>>] + applied[<<jobs[j].org, RefundKey(j)>>]

\* Every invocation of process_template_gen_job on j has returned and none
\* is scheduled.
Settled(j) == ~BagIn(j, tasks) /\ \A p \in Procs : run[p].job # j

\* C8: a template-generation job is charged at most once: whatever the
\* number and interleaving of its invocations, the amount debited under
\* template_gen:<job id> is 0 or template_gen_cost and at most one ledger
\* row carries that key.
C8_JobChargedAtMostOnce ==
    \A j \in JobIds, o \in Orgs :
        /\ applied[<<o, DebitKey(j)>>] \in {0, -TemplateGenCost}
        /\ Entries(credits_ledger, o, DebitKey(j)) <= 1

\* Two invocations of one job are both past the debit: one charged, the
\* other was told already_processed.
C8_Witness ==
    \E p \in Procs, q \in Procs :
        /\ p # q /\ run[p].job # 0 /\ run[p].job = run[q].job
        /\ run[p].debited /\ pc[p] \in {"t_download", "t_generate", "t_persist"}
        /\ ~run[q].debited /\ pc[q] = "t_download"
        /\ applied[<<run[p].org, DebitKey(run[p].job)>>] = -TemplateGenCost

RefundedRun(p) == pc[p] = "t_done" /\ run[p].debited /\ run[p].err # ""

C9_State ==
    \A p \in Procs :
        RefundedRun(p) =>
            LET j == run[p].job
                o == run[p].org
            IN  /\ RefundKey(j) # DebitKey(j)
                /\ CopiesIn(CreditsLedger(o, run[p].amount, "refund_template_gen",
                                          RefundKey(j)), credits_ledger) = 1
                /\ Entries(credits_ledger, o, RefundKey(j)) = 1
                /\ run[p].amount = TemplateGenCost
                /\ run[p].net = 0
                /\ applied[<<o, DebitKey(j)>>] + applied[<<o, RefundKey(j)>>] = 0
                /\ BagCardinality(credits_ledger) = run[p].led + 2
                       => get_balance(o) = run[p].start

C9_Step ==
    \A p \in Procs :
        (pc[p] = "t_fail" /\ pc'[p] # "t_fail")
            => /\ jobs'[run[p].job].status = "failed"
               /\ jobs'[run[p].job].completed_at

C10_ChargeMatchesOutcome ==
    \A j \in DOMAIN jobs :
        (Settled(j) /\ jobs[j].status \in {"succeeded", "failed"})
            => JobNet(j) = IF jobs[j].status = "succeeded" THEN -TemplateGenCost ELSE 0

\* ---------------------------------------------------------------- C11
\* C11: the callers that have returned from acquire() and not yet called
\* release() are never more than max_concurrency, and acquire() returns to a
\* caller only while fewer than max_concurrency others hold the gate: with
\* max_concurrency = 2 a third caller waits until a holder releases.
Holders == {t \in Threads : pc[t] = "l_ret"}
C11_State == Cardinality(Holders) <= limiter.max_concurrency
C11_Step ==
    \A t \in Threads :
        (pc[t] # "l_ret" /\ pc'[t] = "l_ret")
            => Cardinality(Holders) < limiter.max_concurrency
C11_ConcurrencyBound == [](C11_State) /\ [][C11_Step]_vars
C11_Witness ==
    /\ limiter.max_concurrency = 2
    /\ Cardinality(Holders) = 2
    /\ \E t \in Threads : pc[t] = "l_sem"

\* ---------------------------------------------------------------- C12
\* C12: at every time t the admissions granted in the 60 seconds that end at
\* t are at most requests_per_minute, however many releases happened: the
\* admission number rpm + 1 after any admission comes at least 60 seconds
\* after it.
InWindow(t) == {k \in 1..Len(grants) : grants[k] > t - Window /\ grants[k] <= t}
C12_ThroughputBound ==
    /\ \A t \in 0..now : Cardinality(InWindow(t)) <= limiter.rpm
    /\ \A i \in 1..Len(grants) :
          i + limiter.rpm <= Len(grants)
              => grants[i + limiter.rpm] - grants[i] >= Window
C12_Witness ==
    /\ Len(grants) = limiter.rpm + 1
    /\ grants[limiter.rpm + 1] = grants[1] + Window
    /\ limiter.sem = limiter.max_concurrency

\* ---------------------------------------------------------------- C13
\* C13: process_ocr_job invoked on a job whose committed status is succeeded,
\* failed or cancelled returns at once: it changes no field of the job, adds
\* no extracted field and no usage record, does not enter the limiter, calls
\* no provider and sends no callback; process_template_gen_job invoked on a
\* job that is not queued changes nothing and debits nothing.
OcrTables == <<ocr_jobs, extracted_fields, credit_usage, callbacks, limiter, grants>>
TgTables == <<jobs, org_credits, credits_ledger, tx>>
C13_State ==
    \A p \in Procs :
        /\ orun[p].stage = "skipped"
              => /\ pc[p] = "o_done"
                 /\ ~orun[p].wrote /\ orun[p].rows = 0 /\ orun[p].usage = 0
                 /\ orun[p].posts = 0 /\ orun[p].acquired = 0 /\ orun[p].provider = 0
        /\ run[p].stage = "skipped"
              => pc[p] = "t_done" /\ run[p].net = 0 /\ ~run[p].debited
C13_Step ==
    \A p \in Procs :
        /\ ( /\ pc[p] = "o_load" /\ pc'[p] # "o_load"
             /\ ocr_jobs[orun[p].job].status \in {"succeeded", "failed", "cancelled"} )
              => pc'[p] = "o_done" /\ orun'[p].stage = "skipped" /\ OcrTables' = OcrTables
        /\ (orun[p].stage = "skipped" /\ pc'[p] # pc[p])
              => pc'[p] = "idle" /\ OcrTables' = OcrTables
        /\ ( /\ pc[p] = "t_load" /\ pc'[p] # "t_load"
             /\ jobs[run[p].job].status # "queued" )
              => pc'[p] = "t_done" /\ run'[p].stage = "skipped" /\ TgTables' = TgTables
        /\ (run[p].stage = "skipped" /\ pc'[p] # pc[p])
              => pc'[p] = "idle" /\ TgTables' = TgTables
C13_TerminalIdempotence == [](C13_State) /\ [][C13_Step]_vars
C13_Witness ==
    /\ pc["p1"] = "o_done" /\ orun["p1"].stage = "skipped"
    /\ orun["p1"].status = "succeeded"
    /\ BagCardinality(credit_usage) = 1

\* ---------------------------------------------------------------- C14
\* C14: the committed status of an OcrJob and of a TemplateGenJob changes only
\* queued -> running, running -> succeeded or running -> failed, whatever the
\* invocations on the job and their interleaving; succeeded and failed are
\* final and no step sets cancelled.
AllowedTransitions ==
    {<<"queued", "running">>, <<"running", "succeeded">>, <<"running", "failed">>}
C14_Step ==
    /\ \A j \in DOMAIN ocr_jobs :
          ocr_jobs'[j].status # ocr_jobs[j].status
              => <<ocr_jobs[j].status, ocr_jobs'[j].status>> \in AllowedTransitions
    /\ \A j \in DOMAIN jobs :
          jobs'[j].status # jobs[j].status
              => <<jobs[j].status, jobs'[j].status>> \in AllowedTransitions
C14_StatusTransitions == [][C14_Step]_vars

\* ---------------------------------------------------------------- C15
\* C15: of the invocations of process_ocr_job (of process_template_gen_job)
\* on one job at most one gets past the queued -> running flip and does the
\* work; the others return without effect.
\* Every extraction run that got past the flip is either still under way or
\* has left its usage record.
OcrRunsPastFlip(j) ==
    Cardinality({p \in Procs : orun[p].job = j /\ orun[p].wrote /\ orun[p].usage = 0})
    + BagCardinality([u \in {x \in DOMAIN credit_usage : x.job_id = j} |-> credit_usage[u]])
TgRunsPastFlip(j) ==
    Cardinality({p \in Procs : /\ run[p].job = j /\ run[p].stage # "skipped"
                               /\ pc[p] \notin {"idle", "t_load", "t_mark"}})
C15_OneRunDoesTheWork ==
    /\ \A j \in DOMAIN ocr_jobs : OcrRunsPastFlip(j) <= 1
    /\ \A j \in DOMAIN jobs : TgRunsPastFlip(j) <= 1

\* ---------------------------------------------------------------- C16
\* C16: when a step of process_ocr_job raises after the job was marked
\* running, the except branch commits status failed, an error_message of 1 to
\* 2000 characters and completed_at; a failed job always carries them, and
\* they are what the run leaves behind when it returns.
FailedAsItShould(job) ==
    /\ job.status = "failed"
    /\ job.error_message >= 1 /\ job.error_message <= MaxErrorMessage
    /\ job.completed_at
C16_State ==
    /\ \A j \in DOMAIN ocr_jobs :
          ocr_jobs[j].status = "failed" => FailedAsItShould(ocr_jobs[j])
    /\ \A p \in Procs :
          (pc[p] = "o_done" /\ orun[p].exc # "" /\ dispatched = 1)
              => FailedAsItShould(ocr_jobs[orun[p].job])
C16_Step ==
    \A p \in Procs :
        (orun[p].exc # "" /\ pc[p] = "o_fail" /\ pc'[p] # "o_fail")
            => FailedAsItShould(ocr_jobs'[orun[p].job])
C17_NoExceptionEscapes ==
    \A p \in Procs :
        /\ pc[p] \notin {"o_crash", "t_crash"}
        /\ (pc[p] = "o_done" /\ orun[p].exc # "")
              => ocr_jobs[orun[p].job].status = "failed"
        /\ (pc[p] = "t_done" /\ run[p].err # "")
              => jobs[run[p].job].status = "failed"
C17_Witness ==
    /\ pc["p1"] = "o_done" /\ orun["p1"].exc = "provider"
    /\ ocr_jobs[orun["p1"].job].status = "failed"

\* ---------------------------------------------------------------- C18
\* C18: a run of process_ocr_job that passed the terminal guard has appended
\* exactly one CreditUsage row when it returns: status succeeded with the
\* unit cost (>= 1) and the queue size acquire() returned, or status failed
\* with 0 credits; rows are only ever added.
C18_State ==
    \A p \in Procs :
        /\ orun[p].usage <= 1
        /\ (pc[p] = "o_done" /\ orun[p].stage # "skipped") => orun[p].usage = 1
C18_Step ==
    credit_usage' # credit_usage =>
        \E p \in Procs, u \in DOMAIN credit_usage' :
            /\ credit_usage' = credit_usage (+) SetToBag({u})
            /\ orun[p].usage = 0 /\ orun'[p].usage = 1
            /\ u.job_id = orun[p].job
            /\ \/ /\ u.status = "succeeded" /\ orun[p].status = "succeeded"
                  /\ u.credits_used = orun[p].credits_used /\ u.credits_used >= 1
                  /\ u.queue_size = lret[p]
               \/ /\ u.status = "failed" /\ orun[p].status = "failed"
                  /\ u.credits_used = 0
RowsFor(d, f) ==
    IF BagIn(ExtractedField(d, f), extracted_fields)
    THEN extracted_fields[ExtractedField(d, f)] ELSE 0
C19_OneRowPerField ==
    /\ \A j \in DOMAIN ocr_jobs, f \in AllFields :
          RowsFor(ocr_jobs[j].document_id, f) <= 1
    /\ \A p \in Procs :
          ( /\ pc[p] \in {"o_usage", "o_callback", "o_done"}
            /\ orun[p].status = "succeeded"
            /\ ocr_jobs[orun[p].job].template_id # NoTemplate )
              => \A f \in Templates[ocr_jobs[orun[p].job].template_id].fields :
                    RowsFor(ocr_jobs[orun[p].job].document_id, f) = 1

\* ---------------------------------------------------------------- C20
\* C20: the callback POST is attempted at most once per run, and whether it
\* returns 2xx, returns another status or raises, the run goes on the same
\* way and the step changes no job, no extracted field, no usage record and
\* no balance.
C20_Step ==
    \A p \in Procs :
        (pc[p] \in {"o_callback", "o_fcallback"} /\ pc'[p] # pc[p])
            => /\ pc'[p] = IF pc[p] = "o_callback" THEN "o_done" ELSE "o_fusage"
               /\ UNCHANGED <<ocr_jobs, extracted_fields, credit_usage,
                              org_credits, credits_ledger>>
C20_State == \A p \in Procs : orun[p].posts <= 1
C20_CallbackNonFatal == [](C20_State) /\ [][C20_Step]_vars
C20_Witness ==
    \E p \in Procs, q \in Procs :
        /\ pc[p] = "o_done" /\ orun[p].cb = "raised" /\ orun[p].status = "succeeded"
        /\ pc[q] = "o_fusage" /\ orun[q].cb = "non2xx"


\* ------------------------------------------------------------------ C21
\* The threads that hold a concurrency slot of the limiter: admitted by the
\* semaphore and not yet through release().
SlotHolders == {p \in DOMAIN pc : pc[p] \in {"l_rpm", "l_sleep", "l_ret"}}

\* C21: in process_ocr_job every acquire() that returned is followed by
\* exactly one release(), also when the provider call raised, and there is
\* no release() without an acquire(): the permits that are out are exactly
\* those of the runs between acquire() and release(), a run past the
\* provider call has released as often as it acquired, the available
\* permits never exceed max_concurrency, and no slot is held once every run
\* has returned.
C21_SlotAlwaysReturned ==
    /\ limiter.sem <= limiter.max_concurrency
    /\ limiter.sem + Cardinality(SlotHolders) = limiter.max_concurrency
    /\ \A p \in Procs :
          /\ orun[p].released <= orun[p].acquired
          /\ orun[p].acquired <= 1
          /\ pc[p] \in {"o_persist", "o_usage", "o_callback", "o_fail", "o_fcallback",
                        "o_fusage", "o_done", "o_crash"}
                => orun[p].released = orun[p].acquired
    /\ (\A p \in Procs : pc[p] = "idle") => limiter.sem = limiter.max_concurrency

\* A run whose provider call raised has acquired and released once, and
\* all the permits are back.
C21_Witness ==
    \E p \in Procs :
        /\ pc[p] = "o_fail" /\ orun[p].exc = "provider"
        /\ orun[p].acquired = 1 /\ orun[p].released = 1
        /\ limiter.sem = limiter.max_concurrency
        /\ dispatched > 0


\* ------------------------------------------------------------------ C22
\* The timestamps of every committed OcrJob follow its status.
C22_State ==
    \A j \in DOMAIN ocr_jobs :
        /\ ocr_jobs[j].status \in {"running", "succeeded", "failed"}
              => ocr_jobs[j].started_at # ""
        /\ ocr_jobs[j].status \in {"succeeded", "failed"} => ocr_jobs[j].completed_at
\* A started_at that is set is not written again.
C22_Step ==
    \A j \in DOMAIN ocr_jobs :
        ocr_jobs[j].started_at # "" => ocr_jobs'[j].started_at = ocr_jobs[j].started_at

\* C22: in every committed state of an OcrJob a status of running,
\* succeeded or failed implies that started_at is set and a status of
\* succeeded or failed implies that completed_at is set; once started_at is
\* set no later invocation of process_ocr_job on the job overwrites it.
C22_TimestampsFollowStatus == []C22_State /\ [][C22_Step]_vars


\* ------------------------------------------------------------------ C23
\* C23: an insufficient-credits rejection is pre-flight: a template
\* generation job whose debit is rejected with InsufficientCreditsError
\* never starts; it is not in status running when the rejection comes back
\* and a job that ended as "insufficient credits" has no started_at.
C23_RejectionIsPreFlight ==
    /\ \A p \in Procs :
          (pc[p] = "ret" /\ run[p].stage = "debit"
             /\ res[p].raised = "InsufficientCreditsError")
          => jobs[run[p].job].status # "running"
    /\ \A j \in DOMAIN jobs :
          jobs[j].error_message = "insufficient credits" => ~jobs[j].started_at

\* ------------------------------------------------------------------ C24
\* C24: in every run of process_template_gen_job the artifact download and
\* the provider call happen only after a debit under template_gen:<job id>
\* has been committed for the job, and a run whose debit was rejected makes
\* no download and no provider call.
C24_DebitPrecedesWork ==
    \A p \in Procs :
        /\ (pc[p] \in {"t_download", "t_generate"} \/ run[p].work # {})
              => Entries(credits_ledger, run[p].org, DebitKey(run[p].job)) >= 1
        /\ run[p].err = "insufficient credits" => run[p].work = {}

\* A run has downloaded and called the provider with its debit committed;
\* another job was rejected and its run did neither.
C24_Witness ==
    \E p \in Procs, q \in Procs :
        /\ run[p].work = {"download", "provider"}
        /\ Entries(credits_ledger, run[p].org, DebitKey(run[p].job)) = 1
        /\ pc[q] = "t_done" /\ run[q].err = "insufficient credits" /\ run[q].work = {}


\* ------------------------------------------------------------------ C25
\* The callers other than t that have entered acquire() (registered under
\* the lock) and are not yet admitted: blocked on the semaphore or in the
\* throughput loop.
OthersWaiting(t) ==
    {q \in DOMAIN pc \ {t} : pc[q] \in {"l_sem", "l_rpm", "l_sleep"}}
OthersInside(t) ==
    {q \in DOMAIN pc \ {t} : pc[q] \in {"l_enter", "l_sem", "l_rpm", "l_sleep"}}
C25_Step ==
    \A t \in DOMAIN pc :
        (pc[t] = "l_rpm" /\ pc'[t] = "l_ret")
        => /\ lret'[t] = Cardinality(OthersWaiting(t))
           /\ OthersInside(t) = {} => lret'[t] = 0
C25_State ==
    /\ \A t \in DOMAIN lret : lret[t] >= 0
    /\ limiter.waiting = Cardinality({q \in DOMAIN pc : pc[q] \in {"l_sem", "l_rpm", "l_sleep"}})

\* C25: the value acquire() returns to a caller is the number of other
\* callers that had entered acquire() and were not yet admitted at the
\* moment this caller was admitted; it is never negative and it is 0 when
\* no other caller is inside acquire().
C25_QueueSizeAtAdmission == [](C25_State) /\ [][C25_Step]_vars

\* A caller was admitted while two others were waiting, and was told so.
C25_Witness ==
    \E t \in DOMAIN pc :
        /\ pc[t] = "l_ret" /\ lret[t] = 2
        /\ Cardinality(OthersWaiting(t)) = 2


\* ------------------------------------------------------------------ C26
\* C26: all calls to get_limiter() within one process, concurrent first
\* calls from different worker threads included, return the same
\* RateLimiter object: any two threads that have been returned a limiter
\* have been returned the same one.
C26_SingleLimiter ==
    \A t \in DOMAIN got, u \in DOMAIN got :
        (got[t] # 0 /\ got[u] # 0) => got[t] = got[u]


\* ------------------------------------------------------------------ C27
\* The thread's call has just executed ensure_org_row.
Ensured(p) ==
    /\ pc[p] \in {"d_ensure", "r_ensure"}
    /\ pc'[p] \notin {"d_ensure", "r_ensure", "ret"}
C27_Step ==
    \A p \in Procs :
        Ensured(p) =>
            LET o == call[p].org IN
            /\ org_credits' = org_credits
            /\ (o \in DOMAIN org_credits \/ tx[p].row) => tx'[p] = tx[p]
            /\ (o \notin DOMAIN org_credits /\ ~tx[p].row)
                  => tx'[p] = [tx[p] EXCEPT !.row = TRUE, !.bal = 0]
C27_State ==
    \A o \in Orgs : o \notin DOMAIN org_credits => get_balance(o) = 0

\* C27: ensure_org_row creates the account row with balance 0 when the
\* organization has none and changes nothing when the row exists, however
\* often it is called; get_balance is 0 for an organization without a row.
C27_EnsureOrgRow == [](C27_State) /\ [][C27_Step]_vars

\* One call has created the row of an organization that had none, with
\* balance 0, while another has passed ensure_org_row for an organization
\* whose row exists with a positive balance, and added nothing.
C27_Witness ==
    \E p \in Procs, q \in Procs :
        /\ pc[p] \in {"d_insert", "d_update", "r_insert", "r_update"}
        /\ call[p].org \notin DOMAIN org_credits
        /\ tx[p].row /\ tx[p].bal = 0
        /\ pc[q] \in {"d_insert", "d_update", "r_insert", "r_update"}
        /\ call[q].org \in DOMAIN org_credits
        /\ get_balance(call[q].org) > 0
        /\ ~tx[q].row


\* ------------------------------------------------------------------ C28
Remera == <<"R", "e", "m", "e", "r", "a">>

\* C28: for a templated job whose provider result for a field is the value
\* written as Cyrillic ER followed by "-emera", with confidence 0.9, the stored
\* extracted value is "Remera" and the stored confidence is below 0.9.
C28_RemeraScenario ==
    (norm.stage = "done" /\ norm.raw = RemeraRaw /\ norm.conf = 900)
    => /\ norm.stored
       /\ norm.value = Remera
       /\ norm.confidence < 900


\* ------------------------------------------------------------------ C29
\* Every committed state: the balance is the sum of the ledger deltas.
C29_State ==
    \A o \in Orgs : get_balance(o) = SumDelta(credits_ledger, o)
\* Every commit: the balance of each organization moves by the deltas of
\* the ledger rows that appear, rows appear only with a balance change and
\* the balance changes only with a row.
C29_Step ==
    /\ \A o \in Orgs :
          (IF o \in DOMAIN org_credits' THEN org_credits'[o] ELSE 0) - get_balance(o)
              = SumDelta(credits_ledger', o) - SumDelta(credits_ledger, o)
    /\ (credits_ledger' # credits_ledger)
          <=> (\E o \in Orgs :
                 (IF o \in DOMAIN org_credits' THEN org_credits'[o] ELSE 0) # get_balance(o))

\* C29: starting with the balance equal to the sum of the ledger deltas,
\* every interleaving of debit_if_possible and refund calls, keyed or not,
\* succeeding, replayed or rejected, keeps them equal in every committed
\* state: a ledger entry and its balance change commit together.
C29_LedgerAndBalanceTogether == [](C29_State) /\ [][C29_Step]_vars

\* An unkeyed refund has succeeded, a keyed call was answered as a replay
\* and a debit was rejected or another call succeeded; rows were committed.
C29_Witness ==
    \E p \in Procs, q \in Procs :
        /\ p # q
        /\ Succeeded(p) /\ call[p].op = "refund" /\ call[p].key = NoKey
        /\ pc[q] = "ret" /\ res[q].already_processed
        /\ BagCardinality(credits_ledger) >= 2
        /\ get_balance(call[p].org) > 0


\* ------------------------------------------------------------------ C30
\* The thread is at its call of the external provider: provider.extract of
\* an extraction job, TemplateGenerator().generate of a template job.
InProviderCall(p) ==
    \/ pc[p] = "l_ret" /\ orun[p].stage = "acquire"
    \/ pc[p] = "t_generate"

\* C30: every call of the external provider made for a job, by
\* process_ocr_job and by process_template_gen_job alike, happens between
\* an acquire() and its release(), so the provider calls in flight never
\* exceed max_concurrency.
C30_ProviderCallsGated ==
    /\ \A p \in Procs : InProviderCall(p) => p \in SlotHolders
    /\ Cardinality({p \in Procs : InProviderCall(p)}) <= limiter.max_concurrency


\* ------------------------------------------------------------------ C31
\* The run handles the InsufficientCreditsError of its debit.
HandlesRejection(p) ==
    /\ pc[p] = "ret" /\ run[p].stage = "debit"
    /\ res[p].raised = "InsufficientCreditsError"
    /\ pc'[p] # pc[p]
C31_Step ==
    \A p \in Procs :
        HandlesRejection(p) =>
            LET j == run[p].job IN
            /\ jobs'[j].status = "failed"
            /\ jobs'[j].error_message = "insufficient credits"
            /\ jobs'[j].completed_at
            /\ pc'[p] = "t_done"
            /\ tasks' = tasks /\ dispatched' = dispatched
            /\ org_credits' = org_credits /\ credits_ledger' = credits_ledger
C31_State ==
    \A p \in Procs :
        /\ (pc[p] = "ret" /\ run[p].stage = "debit"
               /\ res[p].raised = "InsufficientCreditsError")
              => eff[p].dbal = 0 /\ eff[p].nled = 0 /\ tx[p] = NoTx
        /\ run[p].err = "insufficient credits"
              => /\ pc[p] = "t_done"
                 /\ run[p].work = {}
                 /\ ~run[p].debited /\ run[p].net = 0
                 /\ eff[p].dbal = 0 /\ eff[p].nled = 0
                 /\ call[p].op = "debit"

\* C31: when debit_if_possible raises InsufficientCreditsError the run of
\* process_template_gen_job marks the job failed with error_message
\* "insufficient credits" and completed_at, makes no download and no
\* provider call, issues no refund, leaves the balance and the ledger of
\* the organization as they were, and schedules no retry.
C31_RejectedDebit == [](C31_State) /\ [][C31_Step]_vars

\* A rejected run is about to return: its job is failed with the message,
\* nothing was debited and the balance is what the run found.
C31_Witness ==
    \E p \in Procs :
        /\ pc[p] = "t_done" /\ run[p].err = "insufficient credits"
        /\ jobs[run[p].job].status = "failed"
        /\ jobs[run[p].job].error_message = "insufficient credits"
        /\ jobs[run[p].job].completed_at
        /\ get_balance(run[p].org) = run[p].start
        /\ BagCardinality(credits_ledger) = run[p].led


\* ------------------------------------------------------------------ C32
\* The thread is inside process_ocr_job.
InOcr(p) ==
    \/ pc[p] \in {"o_load", "o_mark", "o_fetch", "o_acquire", "o_persist", "o_usage",
                  "o_callback", "o_fail", "o_fcallback", "o_fusage", "o_done", "o_crash"}
    \/ pc[p] \in {"l_enter", "l_sem", "l_rpm", "l_sleep", "l_ret"} /\ orun[p].stage = "acquire"
C32_Step ==
    (\E p \in Procs : InOcr(p) /\ pc'[p] # pc[p])
    => org_credits' = org_credits /\ credits_ledger' = credits_ledger
\* What a run records of its credits is a CreditUsage row: the pages (at
\* least 1) of a successful run, 0 of a failed one.
C32_State ==
    \A u \in DOMAIN credit_usage :
        /\ u.status = "succeeded" => u.credits_used >= 1
        /\ u.status = "failed" => u.credits_used = 0

\* C32: no execution of process_ocr_job, successful or failed, changes an
\* org_credits balance or adds a credits_ledger entry; it only records the
\* credits it consumed in a CreditUsage row.
C32_ExtractionUncharged == [](C32_State) /\ [][C32_Step]_vars

\* A successful extraction run has recorded two credits of usage while the
\* organization has a balance and a ledger, both as they were.
C32_Witness ==
    \E p \in Procs :
        /\ pc[p] = "o_done" /\ orun[p].status = "succeeded" /\ orun[p].usage = 1
        /\ \E u \in DOMAIN credit_usage : u.status = "succeeded" /\ u.credits_used = 2
        /\ get_balance("o1") > 0
        /\ get_balance("o1") = SumDelta(credits_ledger, "o1")


\* ------------------------------------------------------------------ C33
\* The jobs created for an organization under an idempotency key.
JobsWithKey(o, k) ==
    {j \in DOMAIN jobs : jobs[j].org = o /\ jobs[j].idempotency_key = k}

\* C33: for any interleaving of generate_template_from_pdf requests that
\* carry the same (org_id, idempotency_key) at most one TemplateGenJob with
\* that key is created, and so the organization is debited at most once
\* for the key.
C33_SubmissionIdempotent ==
    \A o \in Orgs :
        /\ Cardinality(JobsWithKey(o, "ik")) <= 1
        /\ Cardinality({j \in JobsWithKey(o, "ik") :
                           Entries(credits_ledger, o, DebitKey(j)) > 0}) <= 1


\* ------------------------------------------------------------------ C34
\* C34: after the trial grant or a top-up of n the balance that
\* debit_if_possible checks has grown by n: the balance that the
\* credits_balance endpoint reports and the balance that debit_if_possible
\* uses agree, and no debit is rejected although its amount is at most the
\* reported balance.
C34_GrantedCreditsSpendable ==
    /\ \A o \in organizations : credits_balance(o) = get_balance(o)
    /\ \A p \in Procs :
          (Insufficient(p) /\ call[p].op = "debit")
              => call[p].amount > credits_balance(call[p].org)


\* ------------------------------------------------------------------ C35
\* C35: no run of process_ocr_job or process_template_gen_job that worked
\* on its job ends leaving the job in a status other than succeeded or
\* failed, whether the provider, storage and database calls return or
\* raise.
C35_NoJobLeftRunning ==
    \A p \in Procs :
        /\ (pc[p] \in {"t_done", "t_crash"} /\ run[p].stage # "skipped"
               /\ run[p].job \in DOMAIN jobs)
              => jobs[run[p].job].status \in {"succeeded", "failed"}
        /\ (pc[p] \in {"o_done", "o_crash"} /\ orun[p].stage # "skipped")
              => ocr_jobs[orun[p].job].status \in {"succeeded", "failed"}


\* ------------------------------------------------------------------ C36
Blocked(t) == pc[t] \in {"l_enter", "l_sem", "l_rpm", "l_sleep"}
\* A caller that holds a concurrency slot and sleeps for the window while
\* another caller waits behind it for the slot.
HolderSleepsBeforeWaiter ==
    \E t, u \in Threads : pc[t] = "l_sleep" /\ pc[u] = "l_sem" /\ limiter.sem = 0

C37_Step ==
    \A p \in Procs :
        (InOcr(p) /\ pc'[p] # pc[p] /\ extracted_fields' # extracted_fields)
            => /\ ocr_jobs[orun[p].job].status # "succeeded"
               /\ ocr_jobs'[orun[p].job].status = "succeeded"
C37_State ==
    \A p \in Procs : orun[p].status = "failed" => orun[p].rows = 0

====
